---- MODULE Spec2Model ----
(* MOBIPAY payment backend: the initiate / status / callback handlers of      *)
(* server2.js over the transactions ledger, with the helpers they call        *)
(* (validation.js, money-split.js, mpesa-service.js).                         *)
EXTENDS Integers, Sequences, FiniteSets, Bags, TLC

(* ------------------------------------------------------------------------ *)
(* Bounds of the model                                                        *)
(* ------------------------------------------------------------------------ *)

\* Number of HTTP requests (initiate, status, callback together) in one run.
MaxRequests == 3

\* Number of those that are payment initiations.
MaxInitiates == 1

(* ------------------------------------------------------------------------ *)
(* JavaScript values.  A string is a sequence of tokens; the strings the      *)
(* code inspects character by character (phone, matatu code, amount text)    *)
(* have one token per character.                                              *)
(* ------------------------------------------------------------------------ *)

Str(s) == [t |-> "str", s |-> s, n |-> 0]
Num(n) == [t |-> "num", s |-> <<>>, n |-> n]
Undefined == [t |-> "undef", s |-> <<>>, n |-> 0]
Null == [t |-> "null", s |-> <<>>, n |-> 0]
NaN == [t |-> "nan", s |-> <<>>, n |-> 0]

\* !x of JavaScript
Falsy(x) ==
    \/ x.t \in {"undef", "null", "nan"}
    \/ x.t = "str" /\ x.s = <<>>
    \/ x.t = "num" /\ x.n = 0

\* x === 0
IsZero(x) == x.t = "num" /\ x.n = 0

\* what node-sqlite3 binds for a parameter: undefined is bound as NULL
Bind(x) == IF x.t = "undef" THEN Null ELSE x

Digits == {"0", "1", "2", "3", "4", "5", "6", "7", "8", "9"}

DigitVal(c) ==
    CASE c = "0" -> 0 [] c = "1" -> 1 [] c = "2" -> 2 [] c = "3" -> 3
      [] c = "4" -> 4 [] c = "5" -> 5 [] c = "6" -> 6 [] c = "7" -> 7
      [] c = "8" -> 8 [] c = "9" -> 9

\* str.replace(/\D/g, '')
StripNonDigits(s) == SelectSeq(s, LAMBDA c : c \in Digits)

AllDigits(s) == \A i \in 1..Len(s) : s[i] \in Digits

StartsWith(s, p) == Len(s) >= Len(p) /\ SubSeq(s, 1, Len(p)) = p

\* str.substring(1)
Substring1(s) == SubSeq(s, 2, Len(s))

RECURSIVE DecimalValue(_)
DecimalValue(s) ==
    IF s = <<>> THEN 0
    ELSE 10 * DecimalValue(SubSeq(s, 1, Len(s) - 1)) + DigitVal(s[Len(s)])

RECURSIVE LeadingDigits(_)
LeadingDigits(s) ==
    IF s = <<>> \/ s[1] \notin Digits THEN <<>>
    ELSE <<s[1]>> \o LeadingDigits(Substring1(s))

\* parseInt(text) for a text without sign or leading blanks: the value of the
\* leading run of digits, NaN when there is none
ParseInt(s) ==
    IF LeadingDigits(s) = <<>> THEN NaN ELSE Num(DecimalValue(LeadingDigits(s)))

(* ------------------------------------------------------------------------ *)
(* sanitize (validation.js)                                                   *)
(* ------------------------------------------------------------------------ *)

cleanPhoneNumber(phone) ==
    IF Falsy(phone) THEN Null
    ELSE LET cleaned == StripNonDigits(phone.s)
         IN  IF StartsWith(cleaned, <<"0">>)
                THEN Str(<<"2", "5", "4">> \o Substring1(cleaned))
             ELSE IF StartsWith(cleaned, <<"7">>) \/ StartsWith(cleaned, <<"1">>)
                THEN Str(<<"2", "5", "4">> \o cleaned)
             ELSE Str(cleaned)

cleanMatatuCode(code) ==
    IF Falsy(code) THEN Null ELSE Str(StripNonDigits(code.s))

cleanAmount(amount) ==
    IF amount.t = "str" THEN ParseInt(StripNonDigits(amount.s))
    ELSE IF amount.t = "num" THEN amount
    ELSE NaN

(* ------------------------------------------------------------------------ *)
(* schemas and validate (validation.js)                                       *)
(* ------------------------------------------------------------------------ *)

MinAmountSchema == 50
MaxAmountSchema == 100000

\* Joi.string().pattern(/^\d{1,4}$/).required()
matatuCodeSchema(v) ==
    v.t = "str" /\ Len(v.s) \in 1..4 /\ AllDigits(v.s)

\* Joi.string().pattern(/^254[17]\d{8}$/).required()
phoneNumberSchema(v) ==
    /\ v.t = "str"
    /\ Len(v.s) = 12
    /\ SubSeq(v.s, 1, 3) = <<"2", "5", "4">>
    /\ v.s[4] \in {"1", "7"}
    /\ AllDigits(v.s)

\* the schema without .min(50)
amountSchema_NoMinimum(v) ==
    v.t = "num" /\ v.n <= MaxAmountSchema

\* Joi.number().integer().min(50).max(100000).required()
amountSchema(v) ==
    v.t = "num" /\ v.n >= MinAmountSchema /\ v.n <= MaxAmountSchema

\* validatePaymentRequest: the schema keys are checked in order and Joi stops
\* at the first error
validatePaymentRequest(data) ==
    LET bad == IF ~matatuCodeSchema(data.matatu_code) THEN <<"matatu_code">>
               ELSE IF ~phoneNumberSchema(data.phone_number) THEN <<"phone_number">>
               ELSE IF ~amountSchema(data.amount) THEN <<"amount">>
               ELSE <<>>
    IN  [isValid |-> bad = <<>>, errors |-> bad]

(* ------------------------------------------------------------------------ *)
(* businessRules.calculateTransactionCharge (validation.js)                   *)
(* ------------------------------------------------------------------------ *)

\* the tiers with their bounds excluded
TierPerMille_Exclusive(amount) ==
    IF amount < 500 THEN 15
    ELSE IF amount < 1000 THEN 12
    ELSE IF amount < 2000 THEN 10
    ELSE 8

\* every fare charged at the rate of the last tier, 0.8%
TierPerMille_Flat(amount) == 8

\* the percentage of the tier, in tenths of a percent
TierPerMille(amount) ==
    IF amount <= 500 THEN 15
    ELSE IF amount <= 1000 THEN 12
    ELSE IF amount <= 2000 THEN 10
    ELSE 8

\* Math.floor written for Math.round
calculateTransactionCharge_Floor(amount) ==
    (amount * TierPerMille(amount)) \div 1000

\* Math.round(amount * (percentage / 100)).  For every integer amount in
\* 1..100000 the double product rounds as the exact product does.
calculateTransactionCharge(amount) ==
    (amount * TierPerMille(amount) + 500) \div 1000

(* ------------------------------------------------------------------------ *)
(* MoneySplitter.calculateSplit (money-split.js)                              *)
(* ------------------------------------------------------------------------ *)

\* The largest charge a fare within the schema's bounds can have.
MaxCharge == calculateTransactionCharge(MaxAmountSchema)

\* The pairs (charge, percentage) in 1..MaxCharge x 0..100 whose exact product
\* charge * percentage / 100 ends in .5 while the double product
\* charge * (percentage / 100) lies just below it, so Math.round rounds down.
\* For every other pair of that range the double product rounds as the exact
\* product does.
DoubleBelowHalf ==
    {<<25, 58>>, <<45, 70>>, <<50, 29>>, <<50, 57>>, <<75, 82>>, <<85, 70>>,
     <<90, 35>>, <<150, 41>>, <<150, 57>>, <<150, 69>>, <<165, 70>>,
     <<170, 35>>, <<175, 70>>, <<325, 70>>, <<330, 35>>, <<335, 70>>,
     <<345, 70>>, <<350, 35>>, <<350, 57>>, <<350, 69>>, <<355, 70>>,
     <<365, 70>>, <<375, 58>>, <<425, 58>>, <<550, 69>>, <<645, 70>>,
     <<650, 35>>, <<650, 57>>, <<650, 69>>, <<655, 70>>, <<665, 70>>,
     <<670, 35>>, <<675, 70>>, <<685, 70>>, <<690, 35>>, <<695, 70>>,
     <<705, 70>>, <<710, 35>>, <<715, 70>>, <<725, 58>>, <<725, 70>>,
     <<730, 35>>, <<750, 29>>, <<750, 57>>, <<775, 58>>}

\* Math.round(transactionCharge * (developerPercentage / 100))
RoundShare(transactionCharge, developerPercentage) ==
    IF <<transactionCharge, developerPercentage>> \in DoubleBelowHalf
    THEN (transactionCharge * developerPercentage) \div 100
    ELSE (transactionCharge * developerPercentage + 50) \div 100

\* the correction lowers the developer share and leaves the owner share as
\* first computed
calculateSplit_StaleOwnerShare(transactionCharge, developerPercentage) ==
    IF transactionCharge < 1 \/ developerPercentage < 0 \/ developerPercentage > 100
    THEN [threw |-> TRUE, developerShare |-> 0, ownerShare |-> 0]
    ELSE LET developerShare == RoundShare(transactionCharge, developerPercentage)
             ownerShare == transactionCharge - developerShare
         IN  [threw |-> FALSE,
              developerShare |-> IF ownerShare < 1 /\ transactionCharge > 1
                                 THEN developerShare - 1 ELSE developerShare,
              ownerShare |-> ownerShare]

\* no correction for the owner's minimum
calculateSplit_NoCorrection(transactionCharge, developerPercentage) ==
    IF transactionCharge < 1 \/ developerPercentage < 0 \/ developerPercentage > 100
    THEN [threw |-> TRUE, developerShare |-> 0, ownerShare |-> 0]
    ELSE LET developerShare == RoundShare(transactionCharge, developerPercentage)
         IN  [threw |-> FALSE,
              developerShare |-> developerShare,
              ownerShare |-> transactionCharge - developerShare]

calculateSplit(transactionCharge, developerPercentage) ==
    IF transactionCharge < 1
    THEN [threw |-> TRUE, developerShare |-> 0, ownerShare |-> 0]
    ELSE IF developerPercentage < 0 \/ developerPercentage > 100
    THEN [threw |-> TRUE, developerShare |-> 0, ownerShare |-> 0]
    ELSE LET developerShare == RoundShare(transactionCharge, developerPercentage)
             ownerShare == transactionCharge - developerShare
             finalDeveloperShare ==
                 IF ownerShare < 1 /\ transactionCharge > 1
                 THEN developerShare - 1 ELSE developerShare
             finalOwnerShare == transactionCharge - finalDeveloperShare
         IN  [threw |-> FALSE,
              developerShare |-> finalDeveloperShare,
              ownerShare |-> finalOwnerShare]

(* ------------------------------------------------------------------------ *)
(* MpesaService.validateCallback / processCallback (mpesa-service.js)         *)
(* ------------------------------------------------------------------------ *)

\* A callback body.  hasBody / hasStk: whether Body and Body.stkCallback are
\* there; meta.present: CallbackMetadata is there, meta.hasItem: it has an Item
\* list, meta.MpesaReceiptNumber: the Value of the item of that name (Undefined
\* when the list has no such item).
Payload(hasBody, hasStk, mrid, ckid, rc, desc, meta) ==
    [hasBody |-> hasBody, hasStk |-> hasStk, MerchantRequestID |-> mrid,
     CheckoutRequestID |-> ckid, ResultCode |-> rc, ResultDesc |-> desc,
     CallbackMetadata |-> meta]

NoMetadata == [present |-> FALSE, hasItem |-> FALSE, MpesaReceiptNumber |-> Undefined]
MetadataItems(receipt) == [present |-> TRUE, hasItem |-> TRUE, MpesaReceiptNumber |-> receipt]
MetadataNoItem == [present |-> TRUE, hasItem |-> FALSE, MpesaReceiptNumber |-> Undefined]

\* !stkCallback[field] && stkCallback[field] !== 0
FieldMissing(v) == Falsy(v) /\ ~IsZero(v)

\* ResultDesc left out of requiredFields
validateCallback_NoResultDesc(callbackData) ==
    IF ~callbackData.hasBody \/ ~callbackData.hasStk
    THEN [isValid |-> FALSE, error |-> "Invalid callback structure"]
    ELSE IF \/ FieldMissing(callbackData.MerchantRequestID)
            \/ FieldMissing(callbackData.CheckoutRequestID)
            \/ FieldMissing(callbackData.ResultCode)
    THEN [isValid |-> FALSE, error |-> "Missing required field"]
    ELSE [isValid |-> TRUE, error |-> ""]

validateCallback(callbackData) ==
    IF ~callbackData.hasBody \/ ~callbackData.hasStk
    THEN [isValid |-> FALSE, error |-> "Invalid callback structure"]
    ELSE IF \/ FieldMissing(callbackData.MerchantRequestID)
            \/ FieldMissing(callbackData.CheckoutRequestID)
            \/ FieldMissing(callbackData.ResultCode)
            \/ FieldMissing(callbackData.ResultDesc)
    THEN [isValid |-> FALSE, error |-> "Missing required field"]
    ELSE [isValid |-> TRUE, error |-> ""]

\* the metadata read without the result.success test
processCallback_KeepsReceipt(callbackData) ==
    LET success == IsZero(callbackData.ResultCode)
        meta == callbackData.CallbackMetadata
    IN  IF ~callbackData.hasBody \/ ~callbackData.hasStk
           \/ (meta.present /\ ~meta.hasItem)
        THEN [checkoutRequestId |-> Undefined, success |-> FALSE,
              mpesaReceiptNumber |-> Undefined]
        ELSE [checkoutRequestId |-> callbackData.CheckoutRequestID,
              success |-> success,
              mpesaReceiptNumber |->
                  IF meta.present THEN meta.MpesaReceiptNumber ELSE Undefined]

\* The catch branch returns { success: false, error } without identifiers.
processCallback(callbackData) ==
    LET success == IsZero(callbackData.ResultCode)
        meta == callbackData.CallbackMetadata
    IN  IF ~callbackData.hasBody \/ ~callbackData.hasStk
           \/ (success /\ meta.present /\ ~meta.hasItem)
        THEN [checkoutRequestId |-> Undefined, success |-> FALSE,
              mpesaReceiptNumber |-> Undefined]
        ELSE [checkoutRequestId |-> callbackData.CheckoutRequestID,
              success |-> success,
              mpesaReceiptNumber |->
                  IF success /\ meta.present THEN meta.MpesaReceiptNumber
                  ELSE Undefined]

(* ------------------------------------------------------------------------ *)
(* Tables created and seeded by init-database.js                              *)
(* ------------------------------------------------------------------------ *)

matatus ==
    {[matatu_code |-> <<"3", "0", "2", "5">>, route_name |-> "Default Route",
      owner_account |-> "254717564238", is_active |-> TRUE]}

accounts ==
    {[account_number |-> "254717564238", account_type |-> "OWNER", is_active |-> TRUE],
     [account_number |-> "254112331196", account_type |-> "DEVELOPER", is_active |-> TRUE]}

DefaultSettings ==
    [developer_percentage |-> Str(<<"1", "0">>), min_amount |-> Str(<<"5", "0">>)]

(* ------------------------------------------------------------------------ *)
(* State                                                                      *)
(* ------------------------------------------------------------------------ *)

VARIABLES
    transactions,     \* the transactions table, in insertion order
    system_settings,  \* the system_settings rows the split reads
    gateway,          \* the STK pushes the provider has accepted
    initiates,        \* running POST /api/payment/initiate handlers (a bag)
    statuses,         \* running GET /api/payment/status/:transactionId handlers
    callbacks,        \* running POST /api/mpesa/callback handlers
    arrived,          \* number of requests received so far
    started,          \* number of those that are payment initiations
    generated,        \* number of transaction ids generated so far
    sent,             \* the response sent last, with the request it answers
    calc,             \* a calculator call: function, arguments, result
    accessToken,      \* MpesaService.accessToken
    tokenExpiry,      \* MpesaService.tokenExpiry
    clock,            \* the time moment() reads, in minutes
    tokenCalls,       \* the generateAccessToken calls made, each with its position
    provider          \* the credentials the provider has issued, in order

\* the credential cache and what it talks to
cache == <<accessToken, tokenExpiry, clock, tokenCalls, provider>>

vars == <<transactions, system_settings, gateway, initiates, statuses, callbacks,
          arrived, started, generated, sent, calc, cache>>

\* the cache as the constructor leaves it, no call made, nothing issued
ColdCache ==
    /\ accessToken = Null
    /\ tokenExpiry = Null
    /\ clock = 0
    /\ tokenCalls = {}
    /\ provider = <<>>

\* one token for each small number, to build identifiers
IdTok(k) == <<"1", "2", "3", "4", "5", "6", "7", "8", "9">>[k]

Put(bag, r) == bag (+) SetToBag({r})
Take(bag, r) == bag (-) SetToBag({r})

\* An HTTP response: status code, the success flag of the body ("absent" when
\* the body has none), its error or errors field ("" / <<>> when absent) and
\* its data.
Response(code, success, error, errors, data) ==
    [code |-> code, success |-> success, error |-> error, errors |-> errors,
     data |-> data]

\* What is remembered of the request answered last: which endpoint, the
\* request (body or parameter), for a callback or a status check what its
\* lookup found ("none", "error", or the status of the row at that time) and
\* the ledger statements its handler ran, the results of the gateway queries
\* its handler made, and the response.
Sent(kind, request, found, reads, writes, res) ==
    [kind |-> kind, request |-> request, found |-> found, reads |-> reads,
     writes |-> writes, query |-> <<>>, res |-> res]

NothingSent == Sent("none", <<>>, "", 0, 0, Response(0, "absent", "", <<>>, <<>>))

\* A call of one of the calculators with its arguments; done once it has
\* returned (or thrown), result then holding what it returned.
Call(fn, args, done, result) == [fn |-> fn, args |-> args, done |-> done, result |-> result]

NoCall == Call("none", <<>>, FALSE, <<>>)

(* ------------------------------------------------------------------------ *)
(* MoneySplitter.getSystemSettings / executeSplit (money-split.js)            *)
(* ------------------------------------------------------------------------ *)

\* parseFloat(settings.developer_percentage) || 10, for texts of digits
getSystemSettings(settings) ==
    LET pct == ParseInt(settings.developer_percentage.s)
        min == ParseInt(settings.min_amount.s)
    IN  [developerPercentage |-> IF Falsy(pct) THEN 10 ELSE pct.n,
         minAmount |-> IF Falsy(min) THEN 50 ELSE min.n]

\* getMatatuOwnerAccount: the join of matatus and accounts finds a row
OwnerAccountFound(matatuCode) ==
    \E m \in matatus : \E a \in accounts :
        /\ m.matatu_code = matatuCode.s /\ m.is_active
        /\ a.account_number = m.owner_account /\ a.is_active

\* getDeveloperAccount
DeveloperAccountFound ==
    \E a \in accounts : a.account_type = "DEVELOPER" /\ a.is_active

\* executeSplit without the try/catch result: a throw of calculateSplit is
\* taken for a split of nothing
executeSplit_IgnoresThrow(matatuCode, fareAmount, transactionCharge, settings) ==
    [success |-> TRUE, error |-> "", ownerShare |-> 0, developerShare |-> 0]

\* the message of the Error calculateSplit throws
SplitError(transactionCharge, developerPercentage) ==
    IF transactionCharge < 1 THEN "Transaction charge must be at least KSh 1"
    ELSE "Developer percentage must be between 0 and 100"

executeSplit(matatuCode, fareAmount, transactionCharge, settings) ==
    LET split == calculateSplit(transactionCharge,
                                getSystemSettings(settings).developerPercentage)
    IN  IF ~OwnerAccountFound(matatuCode)
        THEN [success |-> FALSE, error |-> "Matatu owner account not found or inactive",
              ownerShare |-> 0, developerShare |-> 0]
        ELSE IF ~DeveloperAccountFound
        THEN [success |-> FALSE, error |-> "Developer account not found or inactive",
              ownerShare |-> 0, developerShare |-> 0]
        ELSE IF split.threw
        THEN [success |-> FALSE,
              error |-> SplitError(transactionCharge,
                                   getSystemSettings(settings).developerPercentage),
              ownerShare |-> 0, developerShare |-> 0]
        ELSE [success |-> TRUE, error |-> "",
              ownerShare |-> split.ownerShare, developerShare |-> split.developerShare]

\* businessRules.validateMatatuCodeExists
validateMatatuCodeExists(matatuCode) ==
    \E m \in matatus : m.matatu_code = matatuCode.s /\ m.is_active

(* ------------------------------------------------------------------------ *)
(* POST /api/payment/initiate                                                 *)
(* ------------------------------------------------------------------------ *)

\* request bodies tried
InitiateBodies ==
    {[matatu_code |-> Str(<<"3", "0", "2", "5">>),
      phone_number |-> Str(<<"2", "5", "4", "7", "1", "2", "3", "4", "5", "6", "7", "8">>),
      amount |-> Num(100)],
     [matatu_code |-> Str(<<"3", "0", "2", "5">>),
      phone_number |-> Str(<<"0", "7", "1", "2", "3", "4", "5", "6", "7", "8">>),
      amount |-> Str(<<"3", ",", "0", "0", "0">>)],
     [matatu_code |-> Str(<<"3", "0", "2", "5">>),
      phone_number |-> Str(<<"9", "9", "9">>),
      amount |-> Num(100)],
     [matatu_code |-> Str(<<"3", "0", "2", "5">>),
      phone_number |-> Str(<<"7", "1", "2", "3", "4", "5", "6", "7", "8">>),
      amount |-> Num(49)],
     [matatu_code |-> Str(<<"7", "7">>),
      phone_number |-> Str(<<"2", "5", "4", "7", "1", "2", "3", "4", "5", "6", "7", "8">>),
      amount |-> Num(600)]}

\* the data of the answer to a successful initiation
InitiateData(r) ==
    [transactionId |-> r.transactionId, amount |-> r.amount,
     transactionCharge |-> r.transactionCharge, totalAmount |-> r.totalAmount,
     phoneNumber |-> r.phoneNumber, matatuCode |-> r.matatuCode,
     checkoutRequestId |-> r.stk.checkoutRequestId,
     ownerShare |-> r.ownerShare, developerShare |-> r.developerShare]

InitiateAnswer(body, code, success, error, errors, data) ==
    Sent("initiate", body, "", 0, 0, Response(code, success, error, errors, data))

\* the handler up to the answer of validateMatatuCodeExists
InitiateReceive(body) ==
    /\ arrived < MaxRequests
    /\ started < MaxInitiates
    /\ arrived' = arrived + 1
    /\ started' = started + 1
    /\ LET cleanMatatu == cleanMatatuCode(body.matatu_code)
           cleanPhone == cleanPhoneNumber(body.phone_number)
           cleanAmt == cleanAmount(body.amount)
           validation == validatePaymentRequest(
                             [matatu_code |-> cleanMatatu, phone_number |-> cleanPhone,
                              amount |-> cleanAmt])
           transactionCharge == calculateTransactionCharge(cleanAmt.n)
       IN  IF ~validation.isValid
           THEN /\ sent' = InitiateAnswer(body, 400, "false", "", validation.errors, <<>>)
                /\ initiates' = initiates
           ELSE IF ~validateMatatuCodeExists(cleanMatatu)
           THEN /\ sent' = InitiateAnswer(body, 400, "false",
                               "Invalid matatu code or matatu is not active", <<>>, <<>>)
                /\ initiates' = initiates
           ELSE /\ sent' = sent
                /\ initiates' = Put(initiates,
                       [pc |-> "split", body |-> body, matatuCode |-> cleanMatatu,
                        phoneNumber |-> cleanPhone, amount |-> cleanAmt.n,
                        transactionCharge |-> transactionCharge,
                        totalAmount |-> cleanAmt.n + transactionCharge,
                        ownerShare |-> 0, developerShare |-> 0,
                        transactionId |-> Null,
                        stk |-> [merchantRequestId |-> Null,
                                 checkoutRequestId |-> Null]])
    /\ UNCHANGED <<cache, transactions, system_settings, calc, gateway, statuses, callbacks, generated>>

\* executeSplit, the transaction id, and the STK push request sent
InitiateSplit(r) ==
    /\ r.pc = "split"
    /\ LET splitResult == executeSplit(r.matatuCode, r.amount, r.transactionCharge,
                                       system_settings)
       IN  IF ~splitResult.success
           THEN /\ sent' = InitiateAnswer(r.body, 500, "false", splitResult.error,
                                          <<>>, <<>>)
                /\ initiates' = Take(initiates, r)
                /\ generated' = generated
           ELSE /\ sent' = sent
                /\ generated' = generated + 1
                /\ initiates' = Put(Take(initiates, r),
                       [r EXCEPT !.pc = "stk",
                                 !.ownerShare = splitResult.ownerShare,
                                 !.developerShare = splitResult.developerShare,
                                 !.transactionId = Str(<<"MOBI", IdTok(generated + 1)>>)])
    /\ UNCHANGED <<cache, transactions, system_settings, calc, gateway, statuses, callbacks, arrived,
                   started>>

\* mpesaService.stkPush returns: the provider accepted the push and issued its
\* identifiers, or the call failed and stkPush returned success: false
InitiateStkPush(r) ==
    /\ r.pc = "stk"
    /\ LET k == Cardinality(gateway) + 1
           ids == [merchantRequestId |-> Str(<<"MR_", IdTok(k)>>),
                   checkoutRequestId |-> Str(<<"ws_CO_", IdTok(k)>>)]
       IN  \/ /\ gateway' = gateway \cup
                     {[merchantRequestId |-> ids.merchantRequestId,
                       checkoutRequestId |-> ids.checkoutRequestId,
                       accountReference |-> r.transactionId,
                       amount |-> r.totalAmount,
                       phoneNumber |-> r.phoneNumber]}
              /\ initiates' = Put(Take(initiates, r), [r EXCEPT !.pc = "log", !.stk = ids])
              /\ sent' = sent
           \/ /\ gateway' = gateway
              /\ initiates' = Take(initiates, r)
              /\ sent' = InitiateAnswer(r.body, 500, "false",
                                        "Failed to initiate payment", <<>>, <<>>)
    /\ UNCHANGED <<cache, transactions, system_settings, calc, statuses, callbacks, arrived, started, generated>>

\* the row logTransaction inserts
TransactionRow(r) ==
    [transaction_id |-> r.transactionId,
     matatu_code |-> r.matatuCode,
     phone_number |-> r.phoneNumber,
     amount |-> r.amount,
     transaction_charge |-> r.transactionCharge,
     total_amount |-> r.totalAmount,
     owner_share |-> r.ownerShare,
     developer_share |-> r.developerShare,
     status |-> "PENDING",
     mpesa_receipt_number |-> Null,
     mpesa_request_id |-> IF Falsy(r.stk.merchantRequestId) THEN Null
                          ELSE r.stk.merchantRequestId,
     checkout_request_id |-> IF Falsy(r.stk.checkoutRequestId) THEN Null
                             ELSE r.stk.checkoutRequestId,
     \* DEFAULT CURRENT_TIMESTAMP, counted in insertions
     created_at |-> Len(transactions) + 1]

\* logTransaction: the INSERT runs, or fails and the handler answers 500
logTransaction(r) ==
    /\ r.pc = "log"
    /\ \/ /\ transactions' = Append(transactions, TransactionRow(r))
          /\ initiates' = Put(Take(initiates, r), [r EXCEPT !.pc = "logSplit"])
          /\ sent' = sent
       \/ /\ transactions' = transactions
          /\ initiates' = Take(initiates, r)
          /\ sent' = InitiateAnswer(r.body, 500, "false", "Internal server error",
                                    <<>>, <<>>)
    /\ UNCHANGED <<cache, system_settings, calc, gateway, statuses, callbacks, arrived, started, generated>>

\* the two shares bound in the other order
SplitUpdate_Swapped(rows, transactionId, ownerShare, developerShare) ==
    [j \in 1..Len(rows) |->
        IF rows[j].transaction_id = transactionId
        THEN [rows[j] EXCEPT !.owner_share = developerShare,
                             !.developer_share = ownerShare]
        ELSE rows[j]]

\* UPDATE transactions SET owner_share = ?, developer_share = ?
\* WHERE transaction_id = ?
SplitUpdate(rows, transactionId, ownerShare, developerShare) ==
    [j \in 1..Len(rows) |->
        IF rows[j].transaction_id = transactionId
        THEN [rows[j] EXCEPT !.owner_share = ownerShare,
                             !.developer_share = developerShare]
        ELSE rows[j]]

\* logSplitExecution: the UPDATE of the shares runs, or fails; then the answer
logSplitExecution(r) ==
    /\ r.pc = "logSplit"
    /\ initiates' = Take(initiates, r)
    /\ \/ /\ transactions' = SplitUpdate(transactions, r.transactionId,
                                         r.ownerShare, r.developerShare)
          /\ sent' = InitiateAnswer(r.body, 200, "true", "", <<>>, InitiateData(r))
       \/ /\ transactions' = transactions
          /\ sent' = InitiateAnswer(r.body, 500, "false", "Internal server error",
                                    <<>>, <<>>)
    /\ UNCHANGED <<cache, system_settings, calc, gateway, statuses, callbacks, arrived, started, generated>>

(* ------------------------------------------------------------------------ *)
(* GET /api/payment/status/:transactionId                                     *)
(* ------------------------------------------------------------------------ *)

\* the rows a SELECT ... WHERE transaction_id = ? finds
RowsById(transactionId) ==
    {j \in 1..Len(transactions) : transactions[j].transaction_id = transactionId}

\* the rows a SELECT ... WHERE checkout_request_id = ? finds (NULL matches nothing)
RowsByCheckout(checkoutRequestId) ==
    {j \in 1..Len(transactions) :
        /\ checkoutRequestId.t # "null"
        /\ transactions[j].checkout_request_id = checkoutRequestId}

FirstRow(S) == CHOOSE j \in S : \A k \in S : j <= k

\* transaction ids a status request may name: those of the ledger, and one
\* that no payment has
StatusIds ==
    {transactions[j].transaction_id : j \in 1..Len(transactions)}
        \cup {Str(<<"MOBI", "unknown">>)}

\* the data of the answer of a status check
StatusData(status, receipt) == [status |-> status, mpesaReceiptNumber |-> receipt]

\* found: what the SELECT found; query: the results of the stkPushQuery calls
\* made; writes: the UPDATE statements handed to the database
StatusAnswer(transactionId, found, query, writes, code, success, error, data) ==
    [Sent("status", transactionId, found, 1, writes,
          Response(code, success, error, <<>>, data)) EXCEPT !.query = query]

\* the row is still pending and has a checkout request id: query M-Pesa
\* (mutation: the stored status is not looked at)
NeedsQuery_AnyStatus(transaction) ==
    ~Falsy(transaction.checkout_request_id)

NeedsQuery(transaction) ==
    transaction.status = "PENDING" /\ ~Falsy(transaction.checkout_request_id)

\* the SELECT of the row and what the handler does with it before it awaits
StatusSelect(transactionId) ==
    /\ arrived < MaxRequests
    /\ arrived' = arrived + 1
    /\ \/ /\ sent' = StatusAnswer(transactionId, "error", <<>>, 0, 500, "false",
                                  "Database error", <<>>)
          /\ statuses' = statuses
       \/ /\ RowsById(transactionId) = {}
          /\ sent' = StatusAnswer(transactionId, "none", <<>>, 0, 404, "false",
                                  "Transaction not found", <<>>)
          /\ statuses' = statuses
       \/ /\ RowsById(transactionId) # {}
          /\ LET transaction == transactions[FirstRow(RowsById(transactionId))]
             IN  IF NeedsQuery(transaction)
                 THEN /\ statuses' = Put(statuses,
                             [pc |-> "query", transactionId |-> transactionId,
                              status |-> transaction.status,
                              mpesaReceiptNumber |-> transaction.mpesa_receipt_number,
                              checkoutRequestId |-> transaction.checkout_request_id])
                      /\ sent' = sent
                 ELSE /\ statuses' = statuses
                      /\ sent' = StatusAnswer(transactionId, transaction.status, <<>>, 0,
                                     200, "true", "",
                                     StatusData(transaction.status,
                                                transaction.mpesa_receipt_number))
    /\ UNCHANGED <<cache, transactions, system_settings, calc, gateway, initiates, callbacks, started, generated>>

\* what mpesaService.stkPushQuery may return: a failure, or the provider's
\* answer with or without a ResultCode
QueryResults ==
    {[success |-> FALSE, resultCode |-> Undefined],
     [success |-> TRUE, resultCode |-> Undefined],
     [success |-> TRUE, resultCode |-> Num(0)],
     [success |-> TRUE, resultCode |-> Num(1032)]}

\* the comparison turned round
PollStatus_Inverted(resultCode) == IF IsZero(resultCode) THEN "FAILED" ELSE "COMPLETED"

\* queryResult.data.resultCode === 0 ? 'COMPLETED' : 'FAILED'
PollStatus(resultCode) == IF IsZero(resultCode) THEN "COMPLETED" ELSE "FAILED"

\* stkPushQuery returns; the UPDATE is handed to the database and the answer
\* is sent without waiting for it
StatusQuery(r, queryResult) ==
    /\ r.pc = "query"
    /\ IF queryResult.success /\ queryResult.resultCode.t # "undef"
       THEN /\ statuses' = Put(Take(statuses, r),
                   [r EXCEPT !.pc = "update",
                             !.status = PollStatus(queryResult.resultCode)])
            /\ sent' = StatusAnswer(r.transactionId, r.status, <<queryResult>>, 1,
                           200, "true", "",
                           StatusData(PollStatus(queryResult.resultCode),
                                      r.mpesaReceiptNumber))
       ELSE /\ statuses' = Take(statuses, r)
            /\ sent' = StatusAnswer(r.transactionId, r.status, <<queryResult>>, 0,
                           200, "true", "",
                           StatusData(r.status, r.mpesaReceiptNumber))
    /\ UNCHANGED <<cache, transactions, system_settings, calc, gateway, initiates, callbacks,
                   arrived, started, generated>>

\* UPDATE transactions SET status = ? WHERE transaction_id = ?
PollUpdate(rows, transactionId, newStatus) ==
    [j \in 1..Len(rows) |->
        IF rows[j].transaction_id = transactionId
        THEN [rows[j] EXCEPT !.status = newStatus]
        ELSE rows[j]]

\* the UPDATE of the status check runs, or fails (the error is only logged)
StatusUpdate(r) ==
    /\ r.pc = "update"
    /\ \/ transactions' = PollUpdate(transactions, r.transactionId, r.status)
       \/ transactions' = transactions
    /\ statuses' = Take(statuses, r)
    /\ UNCHANGED <<cache, system_settings, calc, gateway, initiates, callbacks, arrived, started, generated,
                   sent>>

(* ------------------------------------------------------------------------ *)
(* POST /api/mpesa/callback                                                   *)
(* ------------------------------------------------------------------------ *)

Receipt == Str(<<"RCPT">>)

\* checkout ids a callback may carry: those the provider issued, and one that
\* belongs to no transaction
CallbackCheckoutIds ==
    {g.checkoutRequestId : g \in gateway} \cup {Str(<<"ws_CO_", "unknown">>)}

\* callback bodies tried: well-formed ones, and ones with a part missing
CallbackBodies ==
    LET mr == Str(<<"MR_">>)
        desc == Str(<<"desc">>)
        ck == Str(<<"ws_CO_", "unknown">>)
    IN  {Payload(TRUE, TRUE, mr, c, rc, desc, meta) :
            c \in CallbackCheckoutIds,
            rc \in {Num(0), Num(1032)},
            meta \in {NoMetadata, MetadataItems(Receipt)}}
        \cup
        {Payload(FALSE, FALSE, mr, ck, Num(0), desc, NoMetadata),
         Payload(TRUE, FALSE, mr, ck, Num(0), desc, NoMetadata),
         Payload(TRUE, TRUE, Undefined, ck, Num(0), desc, NoMetadata),
         Payload(TRUE, TRUE, mr, Undefined, Num(0), desc, NoMetadata),
         Payload(TRUE, TRUE, mr, Str(<<>>), Num(0), desc, NoMetadata),
         Payload(TRUE, TRUE, mr, ck, Undefined, desc, NoMetadata),
         Payload(TRUE, TRUE, mr, ck, Num(0), Undefined, NoMetadata),
         Payload(TRUE, TRUE, mr, ck, Num(0), desc, MetadataItems(Undefined)),
         Payload(TRUE, TRUE, mr, ck, Num(0), desc, MetadataNoItem)}

CallbackAnswer(body, found, reads, writes, code, success, error) ==
    Sent("callback", body, found, reads, writes,
         Response(code, success, error, <<>>, <<>>))

\* validateCallback, processCallback and the SELECT by checkout_request_id
CallbackSelect(body) ==
    /\ arrived < MaxRequests
    /\ arrived' = arrived + 1
    /\ LET validation == validateCallback(body)
           callbackResult == processCallback(body)
           rows == RowsByCheckout(Bind(callbackResult.checkoutRequestId))
       IN  \/ /\ ~validation.isValid
              /\ sent' = CallbackAnswer(body, "", 0, 0, 400, "absent", validation.error)
              /\ callbacks' = callbacks
           \/ /\ validation.isValid
              /\ sent' = CallbackAnswer(body, "error", 1, 0, 500, "absent",
                                        "Database error")
              /\ callbacks' = callbacks
           \/ /\ validation.isValid
              /\ rows = {}
              /\ sent' = CallbackAnswer(body, "none", 1, 0, 404, "absent",
                                        "Transaction not found")
              /\ callbacks' = callbacks
           \/ /\ validation.isValid
              /\ rows # {}
              /\ sent' = sent
              /\ callbacks' = Put(callbacks,
                     [pc |-> "update", body |-> body, result |-> callbackResult,
                      transaction_id |-> transactions[FirstRow(rows)].transaction_id,
                      found |-> transactions[FirstRow(rows)].status])
    /\ UNCHANGED <<cache, transactions, system_settings, calc, gateway, initiates, statuses, started, generated>>

\* UPDATE transactions SET status = ?, mpesa_receipt_number = ?
\* WHERE transaction_id = ?
CallbackUpdate(rows, transactionId, callbackResult) ==
    [j \in 1..Len(rows) |->
        IF rows[j].transaction_id = transactionId
        THEN [rows[j] EXCEPT
                 !.status = IF callbackResult.success THEN "COMPLETED" ELSE "FAILED",
                 !.mpesa_receipt_number = Bind(callbackResult.mpesaReceiptNumber)]
        ELSE rows[j]]

\* the UPDATE of the callback runs, or fails; then the answer
CallbackWrite(r) ==
    /\ r.pc = "update"
    /\ callbacks' = Take(callbacks, r)
    /\ \/ /\ transactions' = CallbackUpdate(transactions, r.transaction_id, r.result)
          /\ sent' = CallbackAnswer(r.body, r.found, 1, 1, 200, "true", "")
       \/ /\ transactions' = transactions
          /\ sent' = CallbackAnswer(r.body, r.found, 1, 0, 500, "absent", "Update failed")
    /\ UNCHANGED <<cache, system_settings, calc, gateway, initiates, statuses, arrived, started, generated>>

(* ------------------------------------------------------------------------ *)
(* Specification                                                              *)
(* ------------------------------------------------------------------------ *)

Init ==
    /\ transactions = <<>>
    /\ system_settings = DefaultSettings
    /\ gateway = {}
    /\ initiates = EmptyBag
    /\ statuses = EmptyBag
    /\ callbacks = EmptyBag
    /\ arrived = 0
    /\ started = 0
    /\ generated = 0
    /\ sent = NothingSent
    /\ calc = NoCall
    /\ ColdCache

Next ==
    \/ \E body \in InitiateBodies : InitiateReceive(body)
    \/ \E r \in BagToSet(initiates) : InitiateSplit(r)
    \/ \E r \in BagToSet(initiates) : InitiateStkPush(r)
    \/ \E r \in BagToSet(initiates) : logTransaction(r)
    \/ \E r \in BagToSet(initiates) : logSplitExecution(r)
    \/ \E id \in StatusIds : StatusSelect(id)
    \/ \E r \in BagToSet(statuses) : \E q \in QueryResults : StatusQuery(r, q)
    \/ \E r \in BagToSet(statuses) : StatusUpdate(r)
    \/ \E body \in CallbackBodies : CallbackSelect(body)
    \/ \E r \in BagToSet(callbacks) : CallbackWrite(r)

Spec == Init /\ [][Next]_vars

(* ------------------------------------------------------------------------ *)
(* The calculators, called on every argument of their range                   *)
(* ------------------------------------------------------------------------ *)

\* every variable but calc is as the server starts
Idle ==
    /\ transactions = <<>>
    /\ system_settings = DefaultSettings
    /\ gateway = {}
    /\ initiates = EmptyBag
    /\ statuses = EmptyBag
    /\ callbacks = EmptyBag
    /\ arrived = 0
    /\ started = 0
    /\ generated = 0
    /\ sent = NothingSent
    /\ ColdCache

\* no route runs
RoutesQuiet ==
    UNCHANGED <<transactions, system_settings, gateway, initiates, statuses,
                callbacks, arrived, started, generated, sent>>

Quiet ==
    UNCHANGED <<cache, transactions, system_settings, gateway, initiates, statuses,
                callbacks, arrived, started, generated, sent>>

\* businessRules.calculateTransactionCharge(amount), amount an integer fare
InitCharge ==
    /\ Idle
    /\ \E amount \in 1..MaxAmountSchema : calc = Call("charge", <<amount>>, FALSE, <<>>)

ChargeReturns ==
    /\ calc.fn = "charge" /\ ~calc.done
    /\ calc' = Call("charge", calc.args, TRUE, calculateTransactionCharge(calc.args[1]))
    /\ Quiet

NextCharge == ChargeReturns

SpecCharge == InitCharge /\ [][NextCharge]_vars

\* MoneySplitter.calculateSplit(transactionCharge, developerPercentage): the
\* charges a fare can have and one below, the percentages 0..100 and one
\* beyond at each end
SplitCharges == 0..MaxCharge
SplitPercents == -1..101

InitSplit ==
    /\ Idle
    /\ \E c \in SplitCharges : \E pct \in SplitPercents :
          calc = Call("split", <<c, pct>>, FALSE, <<>>)

SplitReturns ==
    /\ calc.fn = "split" /\ ~calc.done
    /\ calc' = Call("split", calc.args, TRUE, calculateSplit(calc.args[1], calc.args[2]))
    /\ Quiet

NextSplit == SplitReturns

SpecSplit == InitSplit /\ [][NextSplit]_vars

(* ------------------------------------------------------------------------ *)
(* MpesaService.stkPush / stkPushQuery (mpesa-service.js)                     *)
(* ------------------------------------------------------------------------ *)

\* A value returned, or an Error thrown.  response: the data of the HTTP
\* error response an axios error carries (errorMessage and errorCode
\* Undefined when the error has no response or the response lacks them).
Returned(value) ==
    [threw |-> FALSE, value |-> value,
     response |-> [errorMessage |-> Undefined, errorCode |-> Undefined]]
Thrown(errorMessage, errorCode) ==
    [threw |-> TRUE, value |-> <<>>,
     response |-> [errorMessage |-> errorMessage, errorCode |-> errorCode]]

\* how the credential fetch goes: a token still valid is reused, a new one is
\* issued, or the request fails (no connection, or the provider refuses)
TokenOutcomes == {"cached", "issued", "network", "refused"}

\* generateAccessToken: every failure is rethrown as a new Error
generateAccessToken(tokenOutcome) ==
    IF tokenOutcome \in {"cached", "issued"}
    THEN Returned(Str(<<"token">>))
    ELSE Thrown(Undefined, Undefined)

\* how axios.post goes: the provider answers with its identifiers and, for a
\* query, a result code; or the request fails without a response, with an
\* error response carrying errorMessage and errorCode, or with one lacking them
PostOutcome(kind, mrid, ckid, rc, errorMessage, errorCode) ==
    [kind |-> kind, MerchantRequestID |-> mrid, CheckoutRequestID |-> ckid,
     ResultCode |-> rc, errorMessage |-> errorMessage, errorCode |-> errorCode]

PostOutcomes ==
    {PostOutcome("answer", Str(<<"MR_", "1">>), Str(<<"ws_CO_", "1">>), Num(0),
                 Undefined, Undefined),
     PostOutcome("answer", Str(<<"MR_", "1">>), Str(<<"ws_CO_", "1">>), Undefined,
                 Undefined, Undefined),
     PostOutcome("network", Undefined, Undefined, Undefined, Undefined, Undefined),
     PostOutcome("error", Undefined, Undefined, Undefined,
                 Str(<<"Invalid Access Token">>), Str(<<"404.001.03">>)),
     PostOutcome("error", Undefined, Undefined, Undefined, Undefined, Undefined)}

AxiosPost(postOutcome) ==
    IF postOutcome.kind = "answer" THEN Returned(postOutcome)
    ELSE Thrown(postOutcome.errorMessage, postOutcome.errorCode)

\* phoneNumber.startsWith('254') ? phoneNumber : `254${phoneNumber.substring(1)}`
\* throws a TypeError when phoneNumber is not a string
CleanPhone(phoneNumber) ==
    IF phoneNumber.t # "str" THEN Thrown(Undefined, Undefined)
    ELSE IF StartsWith(phoneNumber.s, <<"2", "5", "4">>) THEN Returned(phoneNumber)
    ELSE Returned(Str(<<"2", "5", "4">> \o Substring1(phoneNumber.s)))

\* the object the catch block returns: x || fallback
Failure(thrown, fallback) ==
    [threw |-> FALSE, success |-> FALSE,
     error |-> IF Falsy(thrown.response.errorMessage) THEN Str(<<fallback>>)
               ELSE thrown.response.errorMessage,
     errorCode |-> IF Falsy(thrown.response.errorCode) THEN Str(<<"UNKNOWN_ERROR">>)
                   ELSE thrown.response.errorCode,
     data |-> <<>>]

\* an error that leaves the function
Raised == [threw |-> TRUE, success |-> FALSE, error |-> Undefined,
           errorCode |-> Undefined, data |-> <<>>]

\* the access token is fetched before the try block
stkPush_TokenOutsideTry(phoneNumber, tokenOutcome, postOutcome) ==
    IF generateAccessToken(tokenOutcome).threw THEN Raised
    ELSE IF CleanPhone(phoneNumber).threw
    THEN Failure(CleanPhone(phoneNumber), "STK Push request failed")
    ELSE IF AxiosPost(postOutcome).threw
    THEN Failure(AxiosPost(postOutcome), "STK Push request failed")
    ELSE [threw |-> FALSE, success |-> TRUE, error |-> Undefined,
          errorCode |-> Undefined,
          data |-> [merchantRequestId |-> postOutcome.MerchantRequestID,
                    checkoutRequestId |-> postOutcome.CheckoutRequestID]]

stkPush(phoneNumber, tokenOutcome, postOutcome) ==
    LET token == generateAccessToken(tokenOutcome)
        cleanPhone == CleanPhone(phoneNumber)
        response == AxiosPost(postOutcome)
    IN  IF token.threw THEN Failure(token, "STK Push request failed")
        ELSE IF cleanPhone.threw THEN Failure(cleanPhone, "STK Push request failed")
        ELSE IF response.threw THEN Failure(response, "STK Push request failed")
        ELSE [threw |-> FALSE, success |-> TRUE, error |-> Undefined,
              errorCode |-> Undefined,
              data |-> [merchantRequestId |-> response.value.MerchantRequestID,
                        checkoutRequestId |-> response.value.CheckoutRequestID]]

stkPushQuery(checkoutRequestId, tokenOutcome, postOutcome) ==
    LET token == generateAccessToken(tokenOutcome)
        response == AxiosPost(postOutcome)
    IN  IF token.threw THEN Failure(token, "STK Push query failed")
        ELSE IF response.threw THEN Failure(response, "STK Push query failed")
        ELSE [threw |-> FALSE, success |-> TRUE, error |-> Undefined,
              errorCode |-> Undefined,
              data |-> [merchantRequestId |-> response.value.MerchantRequestID,
                        checkoutRequestId |-> response.value.CheckoutRequestID,
                        resultCode |-> response.value.ResultCode]]

\* the first argument of the calls tried: a phone number in either format or
\* none at all for stkPush, a checkout request id or none for stkPushQuery
PushPhones ==
    {Str(<<"2", "5", "4", "7", "1", "2", "3", "4", "5", "6", "7", "8">>),
     Str(<<"0", "7", "1", "2", "3", "4", "5", "6", "7", "8">>),
     Undefined}
QueryIds == {Str(<<"ws_CO_", "1">>), Undefined}

InitGateway ==
    /\ Idle
    /\ \E tokenOutcome \in TokenOutcomes : \E postOutcome \in PostOutcomes :
          \/ \E phoneNumber \in PushPhones :
                calc = Call("stkPush", <<phoneNumber, tokenOutcome, postOutcome>>,
                            FALSE, <<>>)
          \/ \E checkoutRequestId \in QueryIds :
                calc = Call("stkPushQuery",
                            <<checkoutRequestId, tokenOutcome, postOutcome>>,
                            FALSE, <<>>)

StkPushReturns ==
    /\ calc.fn = "stkPush" /\ ~calc.done
    /\ calc' = Call("stkPush", calc.args, TRUE,
                    stkPush(calc.args[1], calc.args[2], calc.args[3]))
    /\ Quiet

StkPushQueryReturns ==
    /\ calc.fn = "stkPushQuery" /\ ~calc.done
    /\ calc' = Call("stkPushQuery", calc.args, TRUE,
                    stkPushQuery(calc.args[1], calc.args[2], calc.args[3]))
    /\ Quiet

NextGateway == StkPushReturns \/ StkPushQueryReturns

SpecGateway == InitGateway /\ [][NextGateway]_vars

(* ------------------------------------------------------------------------ *)
(* MpesaService.generateAccessToken and its cache, with time passing          *)
(* ------------------------------------------------------------------------ *)

MaxTokenCalls == 2
MaxClock == 65
TickMinutes == 5

\* moment().add(55, 'minutes')
CacheMinutes == 55

\* "Token expires in 1 hour"
ValidityMinutes == 60

TokenCallers == 1..MaxTokenCalls

TokenCall(caller, pc, response) == [caller |-> caller, pc |-> pc, response |-> response]

TokenResult(caller, result) == Call("generateAccessToken", <<caller>>, TRUE, result)

\* this.accessToken && this.tokenExpiry && moment().isBefore(this.tokenExpiry)
TokenStillValid ==
    /\ ~Falsy(accessToken)
    /\ ~Falsy(tokenExpiry)
    /\ clock < tokenExpiry.n

\* a call begins: the cached token is returned, or the request to the
\* provider is sent and the call waits for the response; callers are
\* numbered in the order they call
GenerateAccessToken(caller) ==
    /\ caller = Cardinality(tokenCalls) + 1
    /\ IF TokenStillValid
       THEN /\ calc' = TokenResult(caller, Returned(accessToken))
            /\ tokenCalls' = tokenCalls \cup {TokenCall(caller, "done", Null)}
       ELSE /\ calc' = calc
            /\ tokenCalls' = tokenCalls \cup {TokenCall(caller, "get", Null)}
    /\ UNCHANGED <<accessToken, tokenExpiry, clock, provider>>
    /\ RoutesQuiet

\* the provider issues a credential for a request, valid from now
ProviderIssues(r) ==
    /\ r.pc = "get"
    /\ LET access_token == Str(<<IdTok(Len(provider) + 1)>>)
       IN  /\ provider' = Append(provider, [access_token |-> access_token,
                                            issuedAt |-> clock, storedAt |-> Null])
           /\ tokenCalls' = (tokenCalls \ {r}) \cup
                                {TokenCall(r.caller, "response", access_token)}
    /\ UNCHANGED <<accessToken, tokenExpiry, clock, calc>>
    /\ RoutesQuiet

\* axios.get rejects: the catch block throws the fixed error
ProviderFails(r) ==
    /\ r.pc = "get"
    /\ calc' = TokenResult(r.caller, Thrown(Undefined, Undefined))
    /\ tokenCalls' = (tokenCalls \ {r}) \cup {TokenCall(r.caller, "done", Null)}
    /\ UNCHANGED <<accessToken, tokenExpiry, clock, provider>>
    /\ RoutesQuiet

\* the cache with its token only replaced, the expiry kept when there is one
TokenStore_TokenOnly(r) ==
    /\ r.pc = "response"
    /\ accessToken' = r.response
    /\ tokenExpiry' = IF tokenExpiry = Null THEN Num(clock + CacheMinutes) ELSE tokenExpiry
    /\ calc' = TokenResult(r.caller, Returned(accessToken'))
    /\ tokenCalls' = (tokenCalls \ {r}) \cup {TokenCall(r.caller, "done", Null)}
    /\ provider' = [k \in 1..Len(provider) |->
                       IF provider[k].access_token = r.response
                       THEN [provider[k] EXCEPT !.storedAt = Num(clock)]
                       ELSE provider[k]]
    /\ clock' = clock
    /\ RoutesQuiet

\* the response arrives: token and expiry are stored and the token returned;
\* the provider's record notes when its credential was stored
TokenStore(r) ==
    /\ r.pc = "response"
    /\ accessToken' = r.response
    /\ tokenExpiry' = Num(clock + CacheMinutes)
    /\ calc' = TokenResult(r.caller, Returned(accessToken'))
    /\ tokenCalls' = (tokenCalls \ {r}) \cup {TokenCall(r.caller, "done", Null)}
    /\ provider' = [k \in 1..Len(provider) |->
                       IF provider[k].access_token = r.response
                       THEN [provider[k] EXCEPT !.storedAt = Num(clock)]
                       ELSE provider[k]]
    /\ clock' = clock
    /\ RoutesQuiet

\* time passes
Tick ==
    /\ clock + TickMinutes <= MaxClock
    /\ clock' = clock + TickMinutes
    /\ UNCHANGED <<accessToken, tokenExpiry, tokenCalls, provider, calc>>
    /\ RoutesQuiet

NextToken ==
    \/ \E caller \in TokenCallers : GenerateAccessToken(caller)
    \/ \E r \in tokenCalls : ProviderIssues(r)
    \/ \E r \in tokenCalls : ProviderFails(r)
    \/ \E r \in tokenCalls : TokenStore(r)
    \/ Tick

SpecToken == Init /\ [][NextToken]_vars

(* ------------------------------------------------------------------------ *)
(* Phone numbers: MpesaService.formatPhoneNumber, and                         *)
(* sanitize.cleanPhoneNumber followed by validate.validatePhoneNumber         *)
(* ------------------------------------------------------------------------ *)

\* '254' + cleaned, the leading zero kept
formatPhoneNumber_KeepsLeadingZero(phoneNumber) ==
    IF Falsy(phoneNumber) THEN Null
    ELSE LET stripped == StripNonDigits(phoneNumber.s)
             cleaned ==
                 IF StartsWith(stripped, <<"0">>) \/ StartsWith(stripped, <<"7">>)
                    \/ StartsWith(stripped, <<"1">>)
                 THEN <<"2", "5", "4">> \o stripped
                 ELSE stripped
         IN  IF ~StartsWith(cleaned, <<"2", "5", "4">>) THEN Null
             ELSE IF Len(cleaned) # 12 THEN Null
             ELSE Str(cleaned)

formatPhoneNumber(phoneNumber) ==
    IF Falsy(phoneNumber) THEN Null
    ELSE LET stripped == StripNonDigits(phoneNumber.s)
             cleaned ==
                 IF StartsWith(stripped, <<"0">>)
                 THEN <<"2", "5", "4">> \o Substring1(stripped)
                 ELSE IF StartsWith(stripped, <<"7">>) \/ StartsWith(stripped, <<"1">>)
                 THEN <<"2", "5", "4">> \o stripped
                 ELSE stripped
         IN  IF ~StartsWith(cleaned, <<"2", "5", "4">>) THEN Null
             ELSE IF Len(cleaned) # 12 THEN Null
             ELSE Str(cleaned)

\* { isValid: !error, value } of schemas.phoneNumber.validate(phone)
validatePhoneNumber(phone) ==
    [isValid |-> phoneNumberSchema(phone), value |-> phone]

\* the phone numbers tried: a prefix, a first digit and a tail of about eight
\* digits, written with or without a separator; and "999", "", and none
PhonePrefixes ==
    {<<>>, <<"0">>, <<"2", "5", "4">>, <<"+", "2", "5", "4">>, <<"2", "5", "5">>, <<"9">>}
PhoneLeads == {<<"7">>, <<"1">>, <<"2">>, <<"0">>}
PhoneTails ==
    {<<"1", "2", "3", "4", "5", "6", "7", "8">>,
     <<"1", "2", "3", "4", "5", "6", "7">>,
     <<"1", "2", "3", "4", "5", "6", "7", "8", "9">>,
     <<"1", "2", "3", "4", "-", "5", "6", "7", "8">>}
PhoneInputs ==
    {Str(a \o b \o c) : a \in PhonePrefixes, b \in PhoneLeads, c \in PhoneTails}
        \cup {Str(<<"9", "9", "9">>), Str(<<>>), Undefined, Null}

InitPhone ==
    /\ Idle
    /\ \E phone \in PhoneInputs :
          \/ calc = Call("formatPhoneNumber", <<phone>>, FALSE, <<>>)
          \/ calc = Call("validatePhoneNumber", <<phone>>, FALSE, <<>>)

FormatPhoneNumberReturns ==
    /\ calc.fn = "formatPhoneNumber" /\ ~calc.done
    /\ calc' = Call("formatPhoneNumber", calc.args, TRUE, formatPhoneNumber(calc.args[1]))
    /\ Quiet

\* validate.validatePhoneNumber(sanitize.cleanPhoneNumber(phone))
ValidatePhoneNumberReturns ==
    /\ calc.fn = "validatePhoneNumber" /\ ~calc.done
    /\ calc' = Call("validatePhoneNumber", calc.args, TRUE,
                    validatePhoneNumber(cleanPhoneNumber(calc.args[1])))
    /\ Quiet

NextPhone == FormatPhoneNumberReturns \/ ValidatePhoneNumberReturns

SpecPhone == InitPhone /\ [][NextPhone]_vars

(* ------------------------------------------------------------------------ *)
(* GET /api/payment/history/:matatuCode                                       *)
(* ------------------------------------------------------------------------ *)

MaxLedger == 3

DefaultLimit == 50

\* vehicle codes of the ledgers tried: the default matatu and one the
\* dashboard has added
HistoryCodes == {Str(<<"3", "0", "2", "5">>), Str(<<"1", "2">>)}

\* a ledger row of vehicle matatuCode inserted k-th at time createdAt
LedgerRow(k, matatuCode, createdAt) ==
    [transaction_id |-> Str(<<"MOBI", IdTok(k)>>),
     matatu_code |-> matatuCode,
     phone_number |-> Str(<<"2", "5", "4", "7", "1", "2", "3", "4", "5", "6", "7", "8">>),
     amount |-> 100,
     transaction_charge |-> 2,
     total_amount |-> 102,
     owner_share |-> 2,
     developer_share |-> 0,
     status |-> "PENDING",
     mpesa_receipt_number |-> Null,
     mpesa_request_id |-> Str(<<"MR_", IdTok(k)>>),
     checkout_request_id |-> Str(<<"ws_CO_", IdTok(k)>>),
     created_at |-> createdAt]

\* the ledgers of up to MaxLedger rows: CURRENT_TIMESTAMP has a resolution of
\* one second, so rows inserted one after the other may share created_at
Ledgers ==
    UNION {{[k \in 1..n |-> LedgerRow(k, codes[k], times[k])] :
               codes \in [1..n -> HistoryCodes],
               times \in {t \in [1..n -> 1..MaxLedger] :
                             \A i \in 1..n : \A j \in i..n : t[i] <= t[j]}} :
           n \in 0..MaxLedger}

\* req.query.limit: absent, or a text
HistoryLimits == {Undefined, Str(<<"0">>), Str(<<"1">>), Str(<<"2">>)}

\* parseInt(req.query.limit) || 50
HistoryLimit(limitParam) ==
    LET parsed == IF limitParam.t = "str" THEN ParseInt(limitParam.s) ELSE NaN
    IN  IF Falsy(parsed) THEN DefaultLimit ELSE parsed.n

\* the orders in which SELECT ... WHERE matatu_code = ? ORDER BY created_at
\* DESC may return the rows: rows with equal created_at in either order
HistoryOrders(matatuCode) ==
    LET hits == {j \in 1..Len(transactions) :
                    transactions[j].matatu_code = matatuCode}
        n == Cardinality(hits)
    IN  {f \in [1..n -> hits] :
            /\ \A i \in 1..n : \A j \in 1..n : f[i] = f[j] => i = j
            /\ \A i \in 1..n : \A j \in i..n :
                  transactions[f[i]].created_at >= transactions[f[j]].created_at}

\* LIMIT ?
Limited(f, limit) == IF Len(f) <= limit THEN f ELSE SubSeq(f, 1, limit)

\* rows.map(row => ({...}))
HistoryEntry(row) ==
    [transactionId |-> row.transaction_id, fareAmount |-> row.amount,
     transactionCharge |-> row.transaction_charge, totalAmount |-> row.total_amount,
     ownerShare |-> row.owner_share, developerShare |-> row.developer_share,
     status |-> row.status, createdAt |-> row.created_at]

\* getSplitHistory(matatuCode, limit): the lists it may resolve with
getSplitHistory(matatuCode, limit) ==
    {[i \in 1..Len(Limited(f, limit)) |-> HistoryEntry(transactions[f[i]])] :
        f \in HistoryOrders(matatuCode)}

\* the handler: the history is fetched and sent, or the SELECT fails
HistoryRequest(matatuCode, limitParam) ==
    /\ arrived < MaxRequests
    /\ arrived' = arrived + 1
    /\ \/ \E history \in getSplitHistory(matatuCode, HistoryLimit(limitParam)) :
            sent' = Sent("history", [matatuCode |-> matatuCode, limit |-> limitParam],
                         "", 1, 0,
                         Response(200, "true", "", <<>>,
                                  [matatuCode |-> matatuCode, transactions |-> history,
                                   totalTransactions |-> Len(history)]))
       \/ sent' = Sent("history", [matatuCode |-> matatuCode, limit |-> limitParam],
                       "error", 1, 0,
                       Response(500, "false", "Failed to fetch transaction history",
                                <<>>, <<>>))
    /\ UNCHANGED <<cache, transactions, system_settings, calc, gateway, initiates, statuses,
                   callbacks, started, generated>>

InitHistory ==
    /\ transactions \in Ledgers
    /\ system_settings = DefaultSettings
    /\ gateway = {}
    /\ initiates = EmptyBag
    /\ statuses = EmptyBag
    /\ callbacks = EmptyBag
    /\ arrived = 0
    /\ started = 0
    /\ generated = 0
    /\ sent = NothingSent
    /\ calc = NoCall
    /\ ColdCache

NextHistory ==
    \E matatuCode \in HistoryCodes : \E limitParam \in HistoryLimits :
        HistoryRequest(matatuCode, limitParam)

SpecHistory == InitHistory /\ [][NextHistory]_vars

(* ------------------------------------------------------------------------ *)
(* Payment initiation while the dashboard changes the settings                *)
(* ------------------------------------------------------------------------ *)

\* values the dashboard may store for developer_percentage
SettingValues ==
    {Str(<<"1", "0">>), Str(<<"0">>), Str(<<"1", "0", "0">>), Str(<<"1", "5", "0">>)}

\* PUT /api/dashboard/settings/developer_percentage with body {value}: the
\* UPDATE stores the value as it comes
UpdateSetting(value) ==
    /\ arrived < MaxRequests
    /\ arrived' = arrived + 1
    /\ system_settings' = [system_settings EXCEPT !.developer_percentage = value]
    /\ sent' = Sent("settings", value, "", 0, 1,
                    Response(200, "true", "", <<>>, <<>>))
    /\ UNCHANGED <<cache, transactions, calc, gateway, initiates, statuses, callbacks,
                   started, generated>>

\* values the dashboard may store for min_amount
MinAmountValues == {Str(<<"2", "0">>), Str(<<"2", "0", "0">>)}

\* PUT /api/dashboard/settings/min_amount with body {value}
UpdateMinAmount(value) ==
    /\ arrived < MaxRequests
    /\ arrived' = arrived + 1
    /\ system_settings' = [system_settings EXCEPT !.min_amount = value]
    /\ sent' = Sent("settings", value, "", 0, 1,
                    Response(200, "true", "", <<>>, <<>>))
    /\ UNCHANGED <<cache, transactions, calc, gateway, initiates, statuses, callbacks,
                   started, generated>>

\* calculateSplit called at the edges of its range
EdgeCharges == {0, 1, 2}
EdgePercents == {-1, 0, 100, 101}

InitSettings ==
    /\ Idle
    /\ \E c \in EdgeCharges : \E pct \in EdgePercents :
          calc = Call("split", <<c, pct>>, FALSE, <<>>)

NextSettings ==
    \/ \E value \in SettingValues : UpdateSetting(value)
    \/ \E body \in InitiateBodies : InitiateReceive(body)
    \/ \E r \in BagToSet(initiates) : InitiateSplit(r)
    \/ \E r \in BagToSet(initiates) : InitiateStkPush(r)
    \/ \E r \in BagToSet(initiates) : logTransaction(r)
    \/ \E r \in BagToSet(initiates) : logSplitExecution(r)
    \/ SplitReturns

SpecSettings == InitSettings /\ [][NextSettings]_vars

(* ------------------------------------------------------------------------ *)
(* The payment routes while the dashboard changes the settings                *)
(* ------------------------------------------------------------------------ *)

NextLedger ==
    \/ Next
    \/ \E value \in {Str(<<"1", "0", "0">>)} : UpdateSetting(value)
    \/ \E value \in MinAmountValues : UpdateMinAmount(value)

SpecLedger == Init /\ [][NextLedger]_vars

(* ------------------------------------------------------------------------ *)
(* Properties                                                                 *)
(* ------------------------------------------------------------------------ *)

Terminal == {"COMPLETED", "FAILED"}

\* the step is the UPDATE (and answer) of the running callback r
IsCallbackWrite(r) == r \in BagToSet(callbacks) /\ callbacks' = Take(callbacks, r)

\* the step is the UPDATE of the running status check r
IsPollWrite(r) ==
    r \in BagToSet(statuses) /\ r.pc = "update" /\ statuses' = Take(statuses, r)

\* the status of the row with transaction id id, among rows
StatusIn(rows, id) ==
    rows[CHOOSE j \in 1..Len(rows) : rows[j].transaction_id = id].status

\* the checkout ids the provider has issued
Issued == {g.checkoutRequestId : g \in gateway}

\* the receipt a callback body carries in its metadata, Null when it has none
CarriedReceipt(body) ==
    IF /\ body.CallbackMetadata.present
       /\ body.CallbackMetadata.hasItem
       /\ body.CallbackMetadata.MpesaReceiptNumber.t = "str"
    THEN body.CallbackMetadata.MpesaReceiptNumber
    ELSE Null

\* the body lacks Body, Body.stkCallback or one of the four identifying fields
Lacks(body) ==
    \/ ~body.hasBody
    \/ ~body.hasStk
    \/ body.MerchantRequestID.t = "undef"
    \/ body.CheckoutRequestID.t = "undef"
    \/ body.ResultCode.t = "undef"
    \/ body.ResultDesc.t = "undef"

\* C1: once the status of a ledger row is COMPLETED or FAILED, no step
\* changes it.
C1_TerminalStatusIsFinal ==
    [][\A j \in 1..Len(transactions) :
          transactions[j].status \in Terminal
              => transactions'[j].status = transactions[j].status]_vars

\* C2: when a status check that read PENDING and a callback race on one
\* transaction, the one whose UPDATE reaches the ledger second finds the row
\* already terminal and its write is discarded: the ledger is left as the
\* first writer set it.  (First conjunct: the callback wrote first; second:
\* the status check, answered last, wrote first.)
C2_RaceLoserIsDiscarded ==
    [][/\ \A r \in BagToSet(statuses) :
            IsPollWrite(r) /\ StatusIn(transactions, r.transactionId) \in Terminal
                => transactions' = transactions
       /\ \A r \in BagToSet(callbacks) :
            /\ IsCallbackWrite(r)
            /\ r.found = "PENDING"
            /\ sent.kind = "status"
            /\ sent.request = r.transaction_id
            /\ statuses = EmptyBag
            /\ StatusIn(transactions, r.transaction_id) \in Terminal
            => transactions' = transactions]_vars

\* C3: a callback delivered for a transaction whose status is already
\* terminal leaves the ledger unchanged and is answered with success (unless
\* its ledger write itself fails).
C3_TerminalCallbackIsNoOp ==
    [][\A r \in BagToSet(callbacks) :
          IsCallbackWrite(r) /\ r.found \in Terminal /\ sent'.res.code # 500
              => /\ transactions' = transactions
                 /\ sent'.res.code = 200
                 /\ sent'.res.success = "true"]_vars

\* C4: a ledger row holds a receipt only if its status is COMPLETED.
C4_ReceiptOnlyWhenCompleted ==
    \A j \in 1..Len(transactions) :
        transactions[j].mpesa_receipt_number # Null
            => transactions[j].status = "COMPLETED"

\* C5: when the UPDATE of a valid callback that found its transaction PENDING
\* runs, ResultCode 0 leaves the row COMPLETED with the receipt the metadata
\* carries, and any other ResultCode leaves it FAILED without a receipt.
C5_CallbackSetsStatusAndReceipt ==
    [][\A r \in BagToSet(callbacks) :
          IsCallbackWrite(r) /\ r.found = "PENDING" /\ sent'.res.code = 200
              => \E j \in 1..Len(transactions') :
                    /\ transactions'[j].transaction_id = r.transaction_id
                    /\ transactions'[j].checkout_request_id = r.body.CheckoutRequestID
                    /\ IF r.body.ResultCode = Num(0)
                       THEN /\ transactions'[j].status = "COMPLETED"
                            /\ transactions'[j].mpesa_receipt_number
                                   = CarriedReceipt(r.body)
                       ELSE /\ transactions'[j].status = "FAILED"
                            /\ transactions'[j].mpesa_receipt_number = Null]_vars

\* C5 witness: a callback with ResultCode 0 and a receipt, which found its
\* transaction PENDING, has been answered and the row is COMPLETED with it.
C5_Witness ==
    /\ sent.kind = "callback"
    /\ sent.found = "PENDING"
    /\ sent.res.code = 200
    /\ sent.request.ResultCode = Num(0)
    /\ CarriedReceipt(sent.request) = Receipt
    /\ \E j \in 1..Len(transactions) :
          /\ transactions[j].checkout_request_id = sent.request.CheckoutRequestID
          /\ transactions[j].status = "COMPLETED"
          /\ transactions[j].mpesa_receipt_number = Receipt

\* C6: a valid callback whose CheckoutRequestID matches no ledger row writes
\* nothing and is answered with success.
C6_UnknownCheckoutIsAcknowledged ==
    sent.kind = "callback" /\ sent.found = "none"
        => sent.writes = 0 /\ sent.res.code = 200 /\ sent.res.success = "true"

\* C7: a callback body that lacks Body, stkCallback or one of the four fields
\* is answered 400 before any ledger statement runs and never reaches the
\* ledger; a body that has them all, with ResultCode 0, is not rejected.
C7_MalformedCallbackRejected ==
    /\ sent.kind = "callback" /\ Lacks(sent.request)
           => sent.res.code = 400 /\ sent.reads = 0 /\ sent.writes = 0
    /\ \A r \in BagToSet(callbacks) : ~Lacks(r.body)
    /\ ( /\ sent.kind = "callback"
         /\ ~Lacks(sent.request)
         /\ sent.request.ResultCode = Num(0)
         /\ sent.request.CheckoutRequestID # Str(<<>>) )
           => sent.res.code # 400

\* C7 witness: a body without ResultDesc has been answered 400 with no ledger
\* statement run.
C7_Witness ==
    /\ sent.kind = "callback"
    /\ sent.request.hasBody /\ sent.request.hasStk
    /\ sent.request.ResultDesc = Undefined
    /\ sent.res.code = 400
    /\ sent.reads = 0

\* C8: whenever the provider has accepted an STK push, the ledger already has
\* the row of its transaction.
C8_RowExistsBeforePush ==
    \A g \in gateway :
        \E j \in 1..Len(transactions) :
            transactions[j].transaction_id = g.accountReference

\* C9: a callback for a checkout id the provider issued, once answered by the
\* handler without a persistence fault, has left its transaction in a terminal
\* status: it is not lost with the transaction still PENDING.
C9_IssuedCallbackIsNotLost ==
    ( /\ sent.kind = "callback"
      /\ sent.request.CheckoutRequestID \in Issued
      /\ sent.res.code \in {200, 404} )
        => \E j \in 1..Len(transactions) :
              /\ transactions[j].checkout_request_id = sent.request.CheckoutRequestID
              /\ transactions[j].status \in Terminal

\* the rows with transaction id id
RowsWithId(rows, id) == {j \in 1..Len(rows) : rows[j].transaction_id = id}

\* C10: a step that adds to the ledger adds one row, PENDING, without receipt,
\* with the charge of the fee calculator, total = fare + charge, the shares of
\* the split calculator and the identifiers the provider issued for it; and
\* when an initiation is answered with success the ledger has exactly one row
\* for it, with the amounts of the answer (100 gives charge 2 and total 102).
C10_InitiationAddsOnePendingRow ==
    [][/\ Len(transactions') # Len(transactions) =>
            /\ Len(transactions') = Len(transactions) + 1
            /\ SubSeq(transactions', 1, Len(transactions)) = transactions
            /\ LET row == transactions'[Len(transactions')]
                   split == calculateSplit(row.transaction_charge,
                                getSystemSettings(system_settings).developerPercentage)
               IN  /\ row.status = "PENDING"
                   /\ row.mpesa_receipt_number = Null
                   /\ row.transaction_charge = calculateTransactionCharge(row.amount)
                   /\ row.total_amount = row.amount + row.transaction_charge
                   /\ row.owner_share = split.ownerShare
                   /\ row.developer_share = split.developerShare
                   /\ RowsWithId(transactions', row.transaction_id)
                          = {Len(transactions')}
                   /\ \E g \in gateway :
                         /\ g.accountReference = row.transaction_id
                         /\ g.merchantRequestId = row.mpesa_request_id
                         /\ g.checkoutRequestId = row.checkout_request_id
                         /\ g.amount = row.total_amount
       /\ (sent' # sent /\ sent'.kind = "initiate" /\ sent'.res.code = 200) =>
            LET data == sent'.res.data
                rows == RowsWithId(transactions', data.transactionId)
            IN  /\ Cardinality(rows) = 1
                /\ cleanAmount(sent'.request.amount) = Num(data.amount)
                /\ data.amount = 100 =>
                       data.transactionCharge = 2 /\ data.totalAmount = 102
                /\ \A j \in rows :
                      /\ transactions'[j].amount = data.amount
                      /\ transactions'[j].transaction_charge = data.transactionCharge
                      /\ transactions'[j].total_amount = data.totalAmount
                      /\ transactions'[j].owner_share = data.ownerShare
                      /\ transactions'[j].developer_share = data.developerShare
                      /\ transactions'[j].checkout_request_id = data.checkoutRequestId]_vars

\* C10 witness: an initiation of amount 100 has been answered with success,
\* charge 2 and total 102, and its row is in the ledger, still PENDING.
C10_Witness ==
    /\ sent.kind = "initiate"
    /\ sent.res.code = 200
    /\ sent.request.amount = Num(100)
    /\ sent.res.data.transactionCharge = 2
    /\ sent.res.data.totalAmount = 102
    /\ \E j \in 1..Len(transactions) :
          /\ transactions[j].transaction_id = sent.res.data.transactionId
          /\ transactions[j].total_amount = 102
          /\ transactions[j].status = "PENDING"

\* the tier table of the charge: upper bound of the fare and rate in tenths of
\* a percent, first match; above the last bound the rate is 0.8%
TierTable == <<[upTo |-> 500, rate |-> 15], [upTo |-> 1000, rate |-> 12],
               [upTo |-> 2000, rate |-> 10]>>

TableRate(fare) ==
    LET hits == {i \in 1..Len(TierTable) : fare <= TierTable[i].upTo}
    IN  IF hits = {} THEN 8
        ELSE TierTable[CHOOSE i \in hits : \A k \in hits : i <= k].rate

\* r is x = num / den rounded half-up: x - 1/2 < r <= x + 1/2
IsHalfUp(r, num, den) == 2 * num - den < 2 * den * r /\ 2 * den * r <= 2 * num + den

\* C11: for every integer fare in 1..100000 the charge is the fare times the
\* rate of its tier, rounded half-up; 100 gives 2, 1000 gives 12, 3000 gives 24.
C11_ChargeMatchesTierTable ==
    (calc.fn = "charge" /\ calc.done) =>
        LET fare == calc.args[1]
        IN  /\ IsHalfUp(calc.result, fare * TableRate(fare), 1000)
            /\ fare = 100 => calc.result = 2
            /\ fare = 1000 => calc.result = 12
            /\ fare = 3000 => calc.result = 24

\* C11 witness: the charge of 500, the last fare of the first tier, is 7.5
\* rounded up to 8.
C11_Witness ==
    calc = Call("charge", <<500>>, TRUE, 8)

\* a finished call of calculateSplit with arguments in the valid range
ValidSplitCall ==
    /\ calc.fn = "split" /\ calc.done
    /\ calc.args[1] >= 1
    /\ calc.args[2] >= 0 /\ calc.args[2] <= 100

\* C12: for every charge >= 1 and every percentage in 0..100 calculateSplit
\* returns shares that add up to the charge, neither of them negative.
C12_SharesAddUp ==
    ValidSplitCall =>
        /\ ~calc.result.threw
        /\ calc.result.ownerShare + calc.result.developerShare = calc.args[1]
        /\ calc.result.ownerShare >= 0
        /\ calc.result.developerShare >= 0

\* C12 witness: a corrected split, 3 at 100%, returns 1 and 2.
C12_Witness ==
    /\ ValidSplitCall
    /\ calc.args = <<3, 100>>
    /\ calc.result.ownerShare = 1 /\ calc.result.developerShare = 2

\* charge * percentage / 100 rounded half-up
HalfUpShare(charge, pct) == (charge * pct + 50) \div 100

\* C13: for every valid input the developer share is charge * percentage / 100
\* rounded half-up, less 1 exactly when that leaves the owner less than 1 of
\* a charge above 1; the owner share is the charge less the developer share;
\* calculateSplit(1, 10) gives owner 1 and developer 0.
C13_DeveloperShareIsHalfUp ==
    ValidSplitCall =>
        LET charge == calc.args[1]
            rounded == HalfUpShare(charge, calc.args[2])
            corrected == IF charge - rounded < 1 /\ charge > 1
                         THEN rounded - 1 ELSE rounded
        IN  /\ calc.result.developerShare = corrected
            /\ calc.result.ownerShare = charge - corrected
            /\ calc.args = <<1, 10>> =>
                   calc.result.ownerShare = 1 /\ calc.result.developerShare = 0

\* C14: when a charge of 2 or more is split at any percentage in 0..100, the
\* owner share is at least 1.
C14_OwnerGetsAtLeastOne ==
    (ValidSplitCall /\ calc.args[1] >= 2) => calc.result.ownerShare >= 1

\* C14 witness: 2 at 100% leaves the owner 1.
C14_Witness ==
    /\ ValidSplitCall
    /\ calc.args = <<2, 100>>
    /\ calc.result.ownerShare = 1

\* the step is the executeSplit step of the running initiation r
IsSplitStep(r) ==
    /\ r \in BagToSet(initiates)
    /\ r.pc = "split"
    /\ CopiesIn(r, initiates') < CopiesIn(r, initiates)

\* calculateSplit throws for the charge of r under the stored settings
SplitThrowsFor(r) ==
    calculateSplit(r.transactionCharge,
                   getSystemSettings(system_settings).developerPercentage).threw

\* C15: calculateSplit throws exactly when the charge is below 1 or the
\* percentage is outside 0..100; and when it throws during an initiation, the
\* handler ends there with a failure response, no STK push and no ledger row.
C15_SplitFailureEndsInitiation ==
    /\ [](calc.fn = "split" /\ calc.done =>
            calc.result.threw = (\/ calc.args[1] < 1
                                 \/ calc.args[2] < 0
                                 \/ calc.args[2] > 100))
    /\ [][\A r \in BagToSet(initiates) :
            IsSplitStep(r) /\ SplitThrowsFor(r) =>
                /\ initiates' = Take(initiates, r)
                /\ sent'.kind = "initiate"
                /\ sent'.request = r.body
                /\ sent'.res.code >= 400
                /\ sent'.res.success = "false"
                /\ sent'.res.error = "Developer percentage must be between 0 and 100"
                /\ gateway' = gateway
                /\ transactions' = transactions]_vars

\* C15 witness: with developer_percentage set to 150, an initiation has been
\* answered with the error of calculateSplit, nothing pushed, nothing logged,
\* and calculateSplit has thrown on a charge of 0.
C15_Witness ==
    /\ system_settings.developer_percentage = Str(<<"1", "5", "0">>)
    /\ sent.kind = "initiate"
    /\ sent.res.code = 500
    /\ sent.res.error = "Developer percentage must be between 0 and 100"
    /\ initiates = EmptyBag
    /\ gateway = {}
    /\ transactions = <<>>
    /\ calc.done /\ calc.args[1] = 0 /\ calc.result.threw

\* the step is the return of stkPushQuery to the running status check r
IsQueryStep(r) ==
    /\ r \in BagToSet(statuses)
    /\ r.pc = "query"
    /\ CopiesIn(r, statuses') < CopiesIn(r, statuses)

\* C16: a status check that read its row PENDING with a checkout id queries
\* the gateway once; if the query returns a result code the check reports,
\* and its UPDATE writes, COMPLETED for 0 and FAILED for any other code; if
\* the query fails or returns no code the ledger is left as it is and PENDING
\* is reported.
C16_PollMapsResultCode ==
    [][/\ \A r \in BagToSet(statuses) :
            IsQueryStep(r) =>
                /\ r.status = "PENDING"
                /\ sent'.kind = "status"
                /\ sent'.request = r.transactionId
                /\ Len(sent'.query) = 1
                /\ transactions' = transactions
                /\ LET q == sent'.query[1]
                       newStatus == IF q.resultCode = Num(0)
                                    THEN "COMPLETED" ELSE "FAILED"
                   IN  IF q.success /\ q.resultCode # Undefined
                       THEN /\ sent'.res.data.status = newStatus
                            /\ sent'.writes = 1
                            /\ statuses' = Put(Take(statuses, r),
                                   [r EXCEPT !.pc = "update", !.status = newStatus])
                       ELSE /\ sent'.res.data.status = "PENDING"
                            /\ sent'.writes = 0
                            /\ statuses' = Take(statuses, r)
       /\ \A r \in BagToSet(statuses) :
            IsPollWrite(r) =>
                \/ transactions' = transactions
                \/ /\ Len(transactions') = Len(transactions)
                   /\ \A j \in 1..Len(transactions) :
                         IF transactions[j].transaction_id = r.transactionId
                         THEN transactions'[j] =
                                  [transactions[j] EXCEPT !.status = r.status]
                         ELSE transactions'[j] = transactions[j]]_vars

\* C16 witness: a status check that found PENDING got result code 0, reported
\* COMPLETED, and its UPDATE has left the row COMPLETED, no callback having
\* been received.
C16_Witness ==
    /\ sent.kind = "status"
    /\ sent.found = "PENDING"
    /\ sent.query = <<[success |-> TRUE, resultCode |-> Num(0)]>>
    /\ sent.res.data.status = "COMPLETED"
    /\ statuses = EmptyBag
    /\ callbacks = EmptyBag
    /\ arrived = 2
    /\ StatusIn(transactions, sent.request) = "COMPLETED"

\* the step is a status request answered at once
IsStatusAnsweredAtOnce ==
    /\ arrived' = arrived + 1
    /\ sent'.kind = "status"
    /\ statuses' = statuses
    /\ callbacks' = callbacks
    /\ initiates' = initiates

\* C17: a status check on a row whose stored status is COMPLETED or FAILED
\* makes no gateway query and no ledger write and reports the stored status
\* and receipt; one for an unknown id is answered not found, also without
\* query or write; only rows read as PENDING are ever queried.
C17_QueryOnlyWhilePending ==
    /\ [](\A r \in BagToSet(statuses) : r.pc = "query" => r.status = "PENDING")
    /\ [](sent.kind = "status" /\ sent.query # <<>> => sent.found = "PENDING")
    /\ [][IsStatusAnsweredAtOnce =>
            /\ transactions' = transactions
            /\ gateway' = gateway
            /\ sent'.query = <<>>
            /\ sent'.writes = 0
            /\ sent'.found \in Terminal =>
                  /\ RowsById(sent'.request) # {}
                  /\ LET row == transactions[FirstRow(RowsById(sent'.request))]
                     IN  /\ row.status = sent'.found
                         /\ sent'.res.code = 200
                         /\ sent'.res.success = "true"
                         /\ sent'.res.data = StatusData(row.status,
                                                        row.mpesa_receipt_number)
            /\ RowsById(sent'.request) = {} /\ sent'.found # "error" =>
                  /\ sent'.found = "none"
                  /\ sent'.res.code = 404
                  /\ sent'.res.success = "false"
                  /\ sent'.res.error = "Transaction not found"]_vars

\* C17 witness: a status check on a COMPLETED row holding a receipt has been
\* answered with both, without a gateway query.
C17_Witness ==
    /\ sent.kind = "status"
    /\ sent.found = "COMPLETED"
    /\ sent.query = <<>>
    /\ sent.writes = 0
    /\ sent.res.data = StatusData("COMPLETED", Receipt)

\* C18: every failure response of the payment endpoints carries the flag
\* success: false and an error text.
C18_FailuresCarryFlagAndError ==
    (sent.kind \in {"initiate", "status", "callback"} /\ sent.res.code >= 400)
        => sent.res.success = "false" /\ sent.res.error # ""

\* a finished call of stkPush or stkPushQuery
GatewayCallDone == calc.fn \in {"stkPush", "stkPushQuery"} /\ calc.done

\* the credential fetch, the argument and the provider request all went well
GatewayCallWentWell ==
    /\ calc.args[2] \in {"cached", "issued"}
    /\ calc.args[3].kind = "answer"
    /\ calc.fn = "stkPush" => calc.args[1].t = "str"

\* C19: stkPush and stkPushQuery raise nothing: when the credential fetch or
\* the provider request fails, or the argument is malformed, they return
\* success false with an error message and an error code; otherwise they
\* return success true with the identifiers the provider sent.
C19_GatewayCallsNeverThrow ==
    GatewayCallDone =>
        /\ ~calc.result.threw
        /\ calc.result.success = GatewayCallWentWell
        /\ ~calc.result.success =>
               /\ calc.result.error.t = "str" /\ calc.result.error.s # <<>>
               /\ calc.result.errorCode.t = "str" /\ calc.result.errorCode.s # <<>>
        /\ calc.result.success =>
               /\ calc.result.data.merchantRequestId = calc.args[3].MerchantRequestID
               /\ calc.result.data.checkoutRequestId = calc.args[3].CheckoutRequestID

\* C19 witness: stkPush, the credential fetch failing, has returned
\* success false with the fallback message and code.
C19_Witness ==
    /\ GatewayCallDone
    /\ calc.fn = "stkPush"
    /\ calc.args[2] = "network"
    /\ ~calc.result.threw /\ ~calc.result.success
    /\ calc.result.error = Str(<<"STK Push request failed">>)
    /\ calc.result.errorCode = Str(<<"UNKNOWN_ERROR">>)

\* a text of 1 to 4 digits
IsVehicleCode(v) ==
    v.t = "str" /\ Len(v.s) >= 1 /\ Len(v.s) <= 4 /\ \A i \in 1..Len(v.s) : v.s[i] \in Digits

\* 254, then 7 or 1, then 8 digits
IsNationalPhone(v) ==
    /\ v.t = "str"
    /\ Len(v.s) = 3 + 1 + 8
    /\ <<v.s[1], v.s[2], v.s[3]>> = <<"2", "5", "4">>
    /\ v.s[4] = "7" \/ v.s[4] = "1"
    /\ \A i \in 5..12 : v.s[i] \in Digits

\* an integer from 50 to 100000
IsFare(v) == v.t = "num" /\ v.n \in 50..100000

\* the sanitized input of an initiation passes validation and names an
\* active vehicle
Acceptable(body) ==
    /\ IsVehicleCode(cleanMatatuCode(body.matatu_code))
    /\ IsNationalPhone(cleanPhoneNumber(body.phone_number))
    /\ IsFare(cleanAmount(body.amount))
    /\ \E m \in matatus :
          Str(m.matatu_code) = cleanMatatuCode(body.matatu_code) /\ m.is_active

\* C20: an initiation whose sanitized input fails validation, or whose
\* vehicle is unknown or inactive, is answered 400 with an explanation as it
\* arrives: no handler goes on to the split or the STK push and no row is
\* added; one that passes goes on.  Hence every ledger row has a vehicle code
\* of 1 to 4 digits, a phone 254[17] and 8 digits, an amount in 50..100000.
C20_InvalidInitiationRejected ==
    /\ [](\A j \in 1..Len(transactions) :
             /\ IsVehicleCode(transactions[j].matatu_code)
             /\ IsNationalPhone(transactions[j].phone_number)
             /\ IsFare(Num(transactions[j].amount)))
    /\ [][started' = started + 1 =>
            \/ /\ sent'.kind = "initiate"
               /\ ~Acceptable(sent'.request)
               /\ sent'.res.code = 400
               /\ sent'.res.success = "false"
               /\ sent'.res.errors # <<>> \/ sent'.res.error # ""
               /\ initiates' = initiates
               /\ gateway' = gateway
               /\ transactions' = transactions
            \/ /\ sent' = sent
               /\ \E r \in BagToSet(initiates') :
                     /\ initiates' = Put(initiates, r)
                     /\ r.pc = "split"
                     /\ Acceptable(r.body)]_vars

\* C20 witness: an initiation for vehicle 77, which no matatu has, has been
\* answered 400 with the reason, nothing pushed and nothing logged.
C20_Witness ==
    /\ sent.kind = "initiate"
    /\ sent.request.matatu_code = Str(<<"7", "7">>)
    /\ sent.res.code = 400
    /\ sent.res.error = "Invalid matatu code or matatu is not active"
    /\ initiates = EmptyBag
    /\ gateway = {}
    /\ transactions = <<>>

\* the limit a history request names: the number its limit parameter
\* denotes, 50 when it names none
NamedLimit(limitParam) ==
    IF limitParam.t = "str" /\ AllDigits(limitParam.s) /\ limitParam.s # <<>>
    THEN DecimalValue(limitParam.s) ELSE 50

\* C21: a history answer lists only transactions of the vehicle asked for,
\* at most limit of them (50 when no limit is given), the most recently
\* created first, and the request leaves the ledger as it was.
C21_HistoryOfVehicleLimitedAndOrdered ==
    [][(sent'.kind = "history" /\ sent'.res.code = 200 /\ arrived' = arrived + 1) =>
          LET list == sent'.res.data.transactions
              code == sent'.request.matatuCode
          IN  /\ transactions' = transactions
              /\ Len(list) <= NamedLimit(sent'.request.limit)
              /\ \A i \in 1..Len(list) :
                    \E j \in 1..Len(transactions) :
                       /\ transactions[j].transaction_id = list[i].transactionId
                       /\ transactions[j].matatu_code = code
                       /\ transactions[j].created_at = list[i].createdAt
              /\ \A i \in 1..Len(list) : \A k \in i..Len(list) :
                    list[i].createdAt >= list[k].createdAt]_vars

\* C22: when the UPDATE of a reconciliation fails the request is answered
\* with a failure: a callback whose UPDATE failed is not answered with
\* success, and a status check whose UPDATE did not store its new status has
\* not been answered with success reporting that status.
C22_FailedUpdateAbortsRequest ==
    [][/\ \A r \in BagToSet(callbacks) :
            ( /\ IsCallbackWrite(r)
              /\ transactions' = transactions
              /\ StatusIn(transactions, r.transaction_id) = "PENDING" )
                => sent'.res.code >= 400
       /\ \A r \in BagToSet(statuses) :
            ( /\ IsPollWrite(r)
              /\ StatusIn(transactions', r.transactionId) # r.status )
                => ~( /\ sent'.kind = "status"
                      /\ sent'.request = r.transactionId
                      /\ sent'.res.success = "true"
                      /\ sent'.res.data.status = r.status )]_vars

\* the stored developer_percentage denotes a whole number from 0 to 100
DenotesPercent(v) ==
    /\ v.t = "str" /\ v.s # <<>> /\ AllDigits(v.s)
    /\ DecimalValue(v.s) <= 100

\* C23: when the stored developer_percentage denotes a number from 0 to 100,
\* 0 included, the split of an initiation is computed with that percentage.
C23_StoredPercentageIsUsed ==
    [][\A r \in BagToSet(initiates) :
          (IsSplitStep(r) /\ DenotesPercent(system_settings.developer_percentage)) =>
              LET split == calculateSplit(r.transactionCharge,
                               DecimalValue(system_settings.developer_percentage.s))
              IN  \E q \in BagToSet(initiates') :
                     /\ q.pc = "stk"
                     /\ q.body = r.body
                     /\ q.developerShare = split.developerShare
                     /\ q.ownerShare = split.ownerShare]_vars

\* C24: no step changes the fare, charge, total or shares of a row that is
\* in the ledger: not logSplitExecution, a callback, a status check, nor a
\* change of developer_percentage or min_amount.
C24_AmountsOfARowAreFixed ==
    [][/\ Len(transactions') >= Len(transactions)
       /\ \A j \in 1..Len(transactions) :
            /\ transactions'[j].transaction_id = transactions[j].transaction_id
            /\ transactions'[j].amount = transactions[j].amount
            /\ transactions'[j].transaction_charge = transactions[j].transaction_charge
            /\ transactions'[j].total_amount = transactions[j].total_amount
            /\ transactions'[j].owner_share = transactions[j].owner_share
            /\ transactions'[j].developer_share = transactions[j].developer_share]_vars

\* C24 witness: a row split 2 : 0 at 10% has been through logSplitExecution
\* and developer_percentage has since been set to 100; the row still holds
\* charge 2, total 102 and shares 2 : 0.
C24_Witness ==
    /\ system_settings.developer_percentage = Str(<<"1", "0", "0">>)
    /\ initiates = EmptyBag
    /\ Len(transactions) = 1
    /\ transactions[1].transaction_charge = 2
    /\ transactions[1].total_amount = 102
    /\ transactions[1].owner_share = 2
    /\ transactions[1].developer_share = 0

\* the minimum fare the settings configure: the number min_amount denotes
ConfiguredMinimum(settings) == DecimalValue(settings.min_amount.s)

\* C25: an initiation for an active vehicle from a valid phone is rejected
\* when its amount is below the min_amount configured as it arrives, and
\* goes on to the split when its amount is from that minimum to 100000.
C25_ConfiguredMinimumEnforced ==
    [][\A body \in InitiateBodies :
          LET amount == cleanAmount(body.amount)
          IN  (/\ started' = started + 1
               /\ \/ sent' # sent /\ sent'.request = body
                  \/ \E r \in BagToSet(initiates') :
                        initiates' = Put(initiates, r) /\ r.body = body
               /\ Acceptable([body EXCEPT !.amount = Num(50)])
               /\ amount.t = "num")
              => /\ amount.n < ConfiguredMinimum(system_settings)
                      => sent'.res.code = 400 /\ initiates' = initiates
                 /\ amount.n \in ConfiguredMinimum(system_settings)..MaxAmountSchema
                      => initiates' # initiates]_vars

\* the callers that have called generateAccessToken
Called(calls) == {r.caller : r \in calls}

\* the provider's record of a credential
IssueOf(issues, token) ==
    CHOOSE k \in 1..Len(issues) : issues[k].access_token = token

\* a credential is past its validity of 60 minutes at time now
Expired(issues, token, now) ==
    now >= issues[IssueOf(issues, token)].issuedAt + ValidityMinutes

\* a call returns a credential at this step
TokenReturned ==
    /\ calc' # calc
    /\ calc'.fn = "generateAccessToken"
    /\ ~calc'.result.threw

\* C26 (first part): a call returns the cached credential, without
\* contacting the provider, exactly when one is cached and the time is
\* before the expiry; otherwise it asks the provider, and a stored
\* credential gets the expiry 55 minutes from the moment it is stored.
C26_CachedExactlyWhenFresh ==
    [][/\ \A caller \in TokenCallers :
            (caller \notin Called(tokenCalls) /\ caller \in Called(tokenCalls'))
            => IF accessToken # Null /\ tokenExpiry # Null /\ clock < tokenExpiry.n
               THEN /\ calc' = TokenResult(caller, Returned(accessToken))
                    /\ TokenCall(caller, "done", Null) \in tokenCalls'
                    /\ UNCHANGED <<accessToken, tokenExpiry, provider>>
               ELSE /\ TokenCall(caller, "get", Null) \in tokenCalls'
                    /\ calc' = calc
       /\ (accessToken' # accessToken \/ tokenExpiry' # tokenExpiry)
            => tokenExpiry' = Num(clock' + CacheMinutes)]_vars

\* C26: the above, and hence no call returns a credential that is past its
\* validity of 60 minutes when it is returned.
C26_NoExpiredTokenReturned ==
    /\ C26_CachedExactlyWhenFresh
    /\ [][TokenReturned => ~Expired(provider', calc'.result.value, clock')]_vars

\* C27: the cache is written only by a response's arrival, token and expiry
\* together and from that response whatever was cached before; a call that
\* returns, returns a credential the provider issued; and in every state the
\* cached expiry is 55 minutes after the cached credential was stored.
C27_TokenAndExpiryFromOneResponse ==
    /\ [](/\ accessToken = Null <=> tokenExpiry = Null
          /\ accessToken # Null =>
                \E k \in 1..Len(provider) :
                    /\ provider[k].access_token = accessToken
                    /\ provider[k].storedAt # Null
                    /\ tokenExpiry = Num(provider[k].storedAt.n + CacheMinutes))
    /\ [][/\ (accessToken' # accessToken \/ tokenExpiry' # tokenExpiry) =>
               \E r \in tokenCalls :
                   /\ r.pc = "response"
                   /\ accessToken' = r.response
                   /\ tokenExpiry' = Num(clock + CacheMinutes)
                   /\ calc' = TokenResult(r.caller, Returned(r.response))
          /\ TokenReturned =>
               \E k \in 1..Len(provider') :
                   provider'[k].access_token = calc'.result.value]_vars

\* C27 witness: two refreshes were in flight at once and the response with
\* the credential issued first arrived last, at a later time: it is the one
\* cached, with its own expiry.
C27_Witness ==
    /\ Len(provider) = 2
    /\ provider[1].storedAt # Null /\ provider[2].storedAt # Null
    /\ provider[2].issuedAt < provider[2].storedAt.n
    /\ provider[2].storedAt.n < provider[1].storedAt.n
    /\ provider[1].issuedAt < provider[2].storedAt.n
    /\ accessToken = provider[1].access_token
    /\ tokenExpiry = Num(provider[1].storedAt.n + CacheMinutes)

\* the normal form of a phone number: non-digits stripped, a leading 0
\* replaced by 254, 254 put before a leading 7 or 1, a number with 254 in
\* front left as it is; Null (rejected) for anything else
NormalForm(phone) ==
    IF phone.t # "str" THEN Null
    ELSE LET digits == SelectSeq(phone.s, LAMBDA c : c \in Digits)
         IN  IF digits # <<>> /\ digits[1] = "0"
                THEN Str(<<"2", "5", "4">> \o SubSeq(digits, 2, Len(digits)))
             ELSE IF digits # <<>> /\ digits[1] \in {"7", "1"}
                THEN Str(<<"2", "5", "4">> \o digits)
             ELSE IF Len(digits) >= 3 /\ SubSeq(digits, 1, 3) = <<"2", "5", "4">>
                THEN Str(digits)
             ELSE Null

Phone254712345678 == Str(<<"2", "5", "4", "7", "1", "2", "3", "4", "5", "6", "7", "8">>)

\* the three numbers that are to normalize to 254712345678
ExamplePhones ==
    {Str(<<"0", "7", "1", "2", "3", "4", "5", "6", "7", "8">>),
     Str(<<"7", "1", "2", "3", "4", "5", "6", "7", "8">>),
     Phone254712345678}

\* C28: formatPhoneNumber returns the normal form of its argument or null,
\* and null when there is no normal form; validatePhoneNumber after
\* cleanPhoneNumber accepts only the normal form and rejects a number without
\* one; both turn "0712345678", "712345678" and "254712345678" into
\* "254712345678" and reject "999".
C28_PhoneNormalization ==
    calc.done =>
        LET phone == calc.args[1]
        IN  /\ calc.fn = "formatPhoneNumber" =>
                  /\ calc.result \in {Null, NormalForm(phone)}
                  /\ phone \in ExamplePhones => calc.result = Phone254712345678
                  /\ phone = Str(<<"9", "9", "9">>) => calc.result = Null
            /\ calc.fn = "validatePhoneNumber" =>
                  /\ calc.result.isValid => calc.result.value = NormalForm(phone)
                  /\ NormalForm(phone) = Null => ~calc.result.isValid
                  /\ phone \in ExamplePhones =>
                        calc.result.isValid /\ calc.result.value = Phone254712345678
                  /\ phone = Str(<<"9", "9", "9">>) => ~calc.result.isValid

\* C28 witness: "+254 7 1234-5678" written with a plus sign and a hyphen has
\* been formatted to 254712345678.
C28_Witness ==
    /\ calc.done
    /\ calc.fn = "formatPhoneNumber"
    /\ calc.args[1] = Str(<<"+", "2", "5", "4", "7", "1", "2", "3", "4", "-", "5", "6", "7", "8">>)
    /\ calc.result = Phone254712345678

\* C29: what formatPhoneNumber returns, when not null, is 254, then 7 or 1,
\* then eight digits; and it returns null for an argument whose normal form
\* is not of that pattern.
C29_AcceptedPhoneIsNational ==
    (calc.done /\ calc.fn = "formatPhoneNumber") =>
        /\ calc.result # Null => IsNationalPhone(calc.result)
        /\ ~IsNationalPhone(NormalForm(calc.args[1])) => calc.result = Null

\* C30: the charge of every fare from 50 to 100000 is at least 1, so that
\* calculateSplit does not throw on it for any percentage from 0 to 100: the
\* split of a validated payment never fails for want of a charge.
C30_ValidFareHasCharge ==
    (calc.fn = "charge" /\ calc.done /\ IsFare(Num(calc.args[1]))) =>
        /\ calc.result >= 1
        /\ \A pct \in 0..100 : ~calculateSplit(calc.result, pct).threw

\* C30 witness: the smallest valid fare, 50, has been charged 0.75 rounded
\* to 1.
C30_Witness ==
    calc = Call("charge", <<MinAmountSchema>>, TRUE, 1)

====
